---------------------------- MODULE Spec2Model ----------------------------
(***************************************************************************)
(* A model of the static C/C++ analysis engine of this repository:         *)
(*   - DependencyScanner (src/scripts/cdep_analyzer.py): file discovery,   *)
(*     include parsing, include resolution, fan-in/fan-out, find_cycles;   *)
(*   - CCodeParser._remove_comments_and_strings                            *)
(*     (src/scripts/func_scanning.py): the lexical normalizer;             *)
(*   - InterfaceScanner and CallGraphAnalyzer                              *)
(*     (src/analyzer/codebase_reviewer.py): struct and enum definitions,   *)
(*     their usage, function definitions and calls;                        *)
(*   - ProcedureAnalyzer and ModuleAnalyzer of the same file: function     *)
(*     bodies and their complexity counts, directory-level dependencies;   *)
(*   - the main functions of both tools, up to the scans;                  *)
(*   - the stability metrics of src/scripts/analyze_deps.py.               *)
(*                                                                         *)
(* Text is a sequence of one-character strings, so that prefix, suffix,    *)
(* path and ordering operations are computed as the code computes them.    *)
(***************************************************************************)
EXTENDS Integers, Sequences, FiniteSets, TLC

VARIABLES
    pc,              \* position of the run being modelled
    \* ---- the project on disk ----
    isdir,           \* os.path.isdir(args.project_path)
    unreadable,      \* the files whose open() or read() raises IOError / OSError
    \* ---- DependencyScanner (cdep_analyzer.py) ----
    walk,            \* os.walk discovery order of the C/C++ files under root_path
    content,         \* file -> the #include directives include_pattern finds in it
    include_system,  \* constructor argument include_system
    files,           \* self.files: rel_path keys in insertion (discovery) order
    raw_includes,    \* self.files[f]['raw_includes']
    dependencies,    \* self.dependencies
    reverse_deps,    \* self.reverse_deps
    unresolved,      \* self.unresolved
    \* ---- DependencyScanner.find_cycles locals ----
    cycles, visited, rec_stack, path, root,
    dfs_calls,       \* history: the number of calls of dfs made so far
    \* ---- CCodeParser (func_scanning.py) ----
    code,            \* self.content: the raw text of the parsed file
    clean,           \* self.clean_content
    \* ---- CallGraphAnalyzer and InterfaceScanner (codebase_reviewer.py) ----
    source,          \* file -> the text open(...).read() returns
    functions,       \* CallGraphAnalyzer.functions
    call_edges,      \* CallGraphAnalyzer.call_edges
    file_functions,  \* CallGraphAnalyzer.file_functions
    structs,         \* InterfaceScanner.structs (name and file of each)
    enums,           \* InterfaceScanner.enums (name and file of each)
    struct_usage,    \* InterfaceScanner.struct_usage: <<struct, file>> -> counts
    enum_usage,      \* InterfaceScanner.enum_usage: <<enum, file>> -> counts
    pass_pos,        \* index in scanner.files of the file the current pass is at
    \* ---- ProcedureAnalyzer and ModuleAnalyzer (codebase_reviewer.py) ----
    procedures,      \* ProcedureAnalyzer.procedures
    modules,         \* ModuleAnalyzer.modules: directory -> module info
    \* ---- analyze_deps.py ----
    layer_deps, fan_in, fan_out, instability

scanVars  == <<isdir, unreadable, walk, content, include_system, files,
               raw_includes, dependencies, reverse_deps, unresolved>>
cycleVars == <<cycles, visited, rec_stack, path, root, dfs_calls>>
normVars  == <<code, clean>>
callVars  == <<source, functions, call_edges, file_functions, structs, enums,
               struct_usage, enum_usage, pass_pos>>
layerVars == <<layer_deps, fan_in, fan_out, instability>>
analysisVars == <<procedures, modules>>
vars      == <<pc, scanVars, cycleVars, normVars, callVars, layerVars, analysisVars>>

-----------------------------------------------------------------------------
(* Bounds of the model.                                                    *)

MaxFiles == 2
MaxUnreadable == 1
MaxNodes == 3
MaxEdges == 3

-----------------------------------------------------------------------------
(* Generic helpers on sequences.                                           *)

Range(s) == {s[i] : i \in DOMAIN s}

InjSeqs(S, n) ==
    UNION {{s \in [1..k -> S] : \A i, j \in 1..k : i # j => s[i] # s[j]} : k \in 0..n}

\* list.index(x): the first position of x
Index(s, x) == CHOOSE i \in DOMAIN s : s[i] = x /\ \A j \in 1..(i - 1) : s[j] # x

\* str.startswith / str.endswith
StartsWith(s, pre) == Len(pre) <= Len(s) /\ SubSeq(s, 1, Len(pre)) = pre
EndsWith(s, suf) ==
    Len(suf) <= Len(s) /\ SubSeq(s, Len(s) - Len(suf) + 1, Len(s)) = suf

\* Code-point order of the characters that occur in the model's paths.
CharOrder == <<".", "/", "a", "b", "c", "d", "e", "g", "h", "i", "l", "m",
               "n", "s">>
Ord(c) == Index(CharOrder, c)

\* Python's < on str: the first differing character decides, a proper prefix is smaller.
RECURSIVE LexLess(_, _)
LexLess(p, q) ==
    IF q = <<>> THEN FALSE
    ELSE IF p = <<>> THEN TRUE
    ELSE IF Head(p) # Head(q) THEN Ord(Head(p)) < Ord(Head(q))
    ELSE LexLess(Tail(p), Tail(q))

\* min(list) of strings
MinOf(s) == CHOOSE x \in Range(s) : \A y \in Range(s) : y = x \/ LexLess(x, y)

-----------------------------------------------------------------------------
(* posixpath: dirname, basename, join, normpath.                           *)

\* str.rfind('/') + 1, as a count of characters up to and including the last '/'
LastSlash(p) ==
    IF \E i \in DOMAIN p : p[i] = "/"
    THEN CHOOSE i \in DOMAIN p : p[i] = "/" /\ \A j \in (i + 1)..Len(p) : p[j] # "/"
    ELSE 0

RECURSIVE RStripSlash(_)
RStripSlash(p) ==
    IF p # <<>> /\ p[Len(p)] = "/" THEN RStripSlash(SubSeq(p, 1, Len(p) - 1)) ELSE p

basename(p) == SubSeq(p, LastSlash(p) + 1, Len(p))

dirname(p) ==
    LET head == SubSeq(p, 1, LastSlash(p))
    IN  IF head # <<>> /\ \E i \in DOMAIN head : head[i] # "/"
        THEN RStripSlash(head) ELSE head

join(a, b) ==
    IF b # <<>> /\ Head(b) = "/" THEN b
    ELSE IF a = <<>> \/ a[Len(a)] = "/" THEN a \o b
    ELSE a \o <<"/">> \o b

\* str.split('/')
RECURSIVE SplitSlash(_, _)
SplitSlash(p, cur) ==
    IF p = <<>> THEN <<cur>>
    ELSE IF Head(p) = "/" THEN <<cur>> \o SplitSlash(Tail(p), <<>>)
    ELSE SplitSlash(Tail(p), Append(cur, Head(p)))

\* the component loop of normpath
RECURSIVE NormComps(_, _, _)
NormComps(comps, acc, absolute) ==
    IF comps = <<>> THEN acc
    ELSE LET c == Head(comps) IN
         IF c = <<>> \/ c = <<".">> THEN NormComps(Tail(comps), acc, absolute)
         ELSE IF c # <<".", ".">>
                 \/ (~absolute /\ acc = <<>>)
                 \/ (acc # <<>> /\ acc[Len(acc)] = <<".", ".">>)
              THEN NormComps(Tail(comps), Append(acc, c), absolute)
         ELSE IF acc # <<>>
              THEN NormComps(Tail(comps), SubSeq(acc, 1, Len(acc) - 1), absolute)
         ELSE NormComps(Tail(comps), acc, absolute)

\* '/'.join(comps)
RECURSIVE JoinSlash(_)
JoinSlash(comps) ==
    IF comps = <<>> THEN <<>>
    ELSE IF Len(comps) = 1 THEN comps[1]
    ELSE comps[1] \o <<"/">> \o JoinSlash(Tail(comps))

normpath(p) ==
    IF p = <<>> THEN <<".">>
    ELSE LET absolute == Head(p) = "/"
             slashes  == IF ~absolute THEN <<>>
                         ELSE IF StartsWith(p, <<"/", "/">>) /\ ~StartsWith(p, <<"/", "/", "/">>)
                              THEN <<"/", "/">> ELSE <<"/">>
             out      == slashes \o JoinSlash(NormComps(SplitSlash(p, <<>>), <<>>, absolute))
         IN  IF out = <<>> THEN <<".">> ELSE out


-----------------------------------------------------------------------------
(* The text universe of the scanner model: relative paths and directives.  *)

a_h       == <<"a", ".", "h">>
b_h       == <<"b", ".", "h">>
b_c       == <<"b", ".", "c">>
c_h       == <<"c", ".", "h">>
gl_a_h    == <<"g", "l", "/", "a", ".", "h">>
s_gl_a_h  == <<"s", "/", "g", "l", "/", "a", ".", "h">>
up_a_h    == <<".", ".", "/", "a", ".", "h">>
missing_h == <<"m", "i", "s", "s", "i", "n", "g", ".", "h">>

\* Files os.walk may discover.  Every one of them has an extension of
\* ALL_EXTENSIONS and lies in no excluded directory.
FileUniverse  == {a_h, b_h, b_c, gl_a_h, s_gl_a_h}
\* Files of the projects find_cycles is explored on (all in the root directory).
CycleUniverse == {a_h, b_c, b_h, c_h}
Paths         == FileUniverse \cup CycleUniverse \cup {<<"m", ".", "c">>}

\* One match of include_pattern: group(1) is the bracket, group(2) the path.
Quote(p) == [bracket |-> "\"", path |-> p]
Angle(p) == [bracket |-> "<", path |-> p]

\* The include directives of one file, in text order.
FileContents ==
    { <<>>, <<Quote(a_h)>>, <<Quote(b_h)>>, <<Quote(missing_h)>>,
      <<Quote(up_a_h)>>, <<Angle(gl_a_h)>>, <<Angle(b_h)>>, <<Angle(missing_h)>> }

\* What a file that cannot be read holds on disk: the program never sees it,
\* so two contents stand for all, one that would resolve and one that would not.
UnreadableContents == { <<Quote(a_h)>>, <<Quote(missing_h)>> }

\* SYSTEM_HEADER_PREFIXES, restricted to the prefixes that begin with the first
\* character of an angle-form include path of the model (b, g, m): no other
\* prefix can match one of them.
SYSTEM_HEADER_PREFIXES ==
    { <<"b", "i", "t", "s", "e", "t">>, <<"b", "i", "t">>,
      <<"b", "o", "o", "s", "t", "/">>, <<"b", "a", "r", "r", "i", "e", "r">>,
      <<"g", "l", "/">>, <<"g", "l", "m", "/">>,
      <<"g", "t", "e", "s", "t", "/">>, <<"g", "m", "o", "c", "k", "/">>,
      <<"m", "a", "t", "h">>, <<"m", "a", "p">>,
      <<"m", "e", "m", "o", "r", "y">>, <<"m", "u", "t", "e", "x">> }

None == <<>>

EmptyMap == [p \in Paths |-> {}]

-----------------------------------------------------------------------------
(* DependencyScanner._parse_includes                                       *)

\* The body of the finditer loop: the raw include a directive yields, if any.
RawInclude(d, incl_sys) ==
    LET is_system == (d.bracket = "<")
    IN  IF is_system /\ ~incl_sys
           /\ \E pre \in SYSTEM_HEADER_PREFIXES : StartsWith(d.path, pre)
        THEN <<>>
        ELSE <<[path |-> d.path, is_system |-> is_system]>>

RECURSIVE ParseFile(_, _)
ParseFile(directives, incl_sys) ==
    IF directives = <<>> THEN <<>>
    ELSE RawInclude(Head(directives), incl_sys) \o ParseFile(Tail(directives), incl_sys)

\* ParseAll with the read of every file succeeding.
ParseAllReadable(fileSeq, cont, incl_sys, unread) ==
    [f \in Range(fileSeq) |-> ParseFile(cont[f], incl_sys)]

\* The loop over self.files: a file whose open() or read() raises is left
\* with the empty raw_includes _find_files gave it.
ParseAll(fileSeq, cont, incl_sys, unread) ==
    [f \in Range(fileSeq) |->
        IF f \in unread THEN <<>> ELSE ParseFile(cont[f], incl_sys)]

-----------------------------------------------------------------------------
(* DependencyScanner._resolve_dependencies                                 *)

\* filename_map[basename]: the files with that basename, in discovery order
FilenameMap(fileSeq, name) == SelectSeq(fileSeq, LAMBDA p : basename(p) = name)

\* Resolve without the basename lookup of lines 207-222.
ResolveWithoutLookup(fileSeq, rel_path, inc_path) ==
    LET candidate == normpath(join(dirname(rel_path), inc_path))
    IN  IF candidate \in Range(fileSeq) THEN candidate
        ELSE IF inc_path \in Range(fileSeq) THEN inc_path
        ELSE None

\* Resolve with steps 1 and 2 exchanged: the project root is tried first.
ResolveRootFirst(fileSeq, rel_path, inc_path) ==
    LET candidate  == normpath(join(dirname(rel_path), inc_path))
        candidates == FilenameMap(fileSeq, basename(inc_path))
        suffixed   == SelectSeq(candidates, LAMBDA c : EndsWith(c, inc_path))
    IN  IF inc_path \in Range(fileSeq) THEN inc_path
        ELSE IF candidate \in Range(fileSeq) THEN candidate
        ELSE IF Len(candidates) = 1 THEN candidates[1]
        ELSE IF Len(candidates) > 1
             THEN (IF suffixed # <<>> THEN suffixed[1] ELSE candidates[1])
        ELSE None

\* Resolve without the suffix preference of lines 216-219.
ResolveFirstCandidate(fileSeq, rel_path, inc_path) ==
    LET candidate  == normpath(join(dirname(rel_path), inc_path))
        candidates == FilenameMap(fileSeq, basename(inc_path))
    IN  IF candidate \in Range(fileSeq) THEN candidate
        ELSE IF inc_path \in Range(fileSeq) THEN inc_path
        ELSE IF Len(candidates) >= 1 THEN candidates[1]
        ELSE None

\* Resolve without the membership test of line 198.
ResolveUnchecked(fileSeq, rel_path, inc_path) ==
    normpath(join(dirname(rel_path), inc_path))

\* Lines 194-222: the file an include path resolves to, or None.
Resolve(fileSeq, rel_path, inc_path) ==
    LET file_dir   == dirname(rel_path)
        candidate  == normpath(join(file_dir, inc_path))
        candidates == FilenameMap(fileSeq, basename(inc_path))
        suffixed   == SelectSeq(candidates, LAMBDA c : EndsWith(c, inc_path))
    IN  IF candidate \in Range(fileSeq) THEN candidate
        ELSE IF inc_path \in Range(fileSeq) THEN inc_path
        ELSE IF Len(candidates) = 1 THEN candidates[1]
        ELSE IF Len(candidates) > 1
             THEN (IF suffixed # <<>> THEN suffixed[1] ELSE candidates[1])
        ELSE None

\* Record without the reverse edge of line 226.
RecordNoReverse(st, rel_path, inc, resolved) ==
    IF resolved # None
    THEN [st EXCEPT !.dependencies[rel_path] = @ \cup {resolved}]
    ELSE IF ~inc.is_system
    THEN [st EXCEPT !.unresolved[rel_path] = @ \cup {inc.path}]
    ELSE st

\* Record with the test of line 227 inverted.
RecordSystemOnly(st, rel_path, inc, resolved) ==
    IF resolved # None
    THEN [st EXCEPT !.dependencies[rel_path] = @ \cup {resolved},
                    !.reverse_deps[resolved] = @ \cup {rel_path}]
    ELSE IF inc.is_system
    THEN [st EXCEPT !.unresolved[rel_path] = @ \cup {inc.path}]
    ELSE st

\* Record with the reverse edge of line 226 entered under the wrong key.
RecordReverseSwapped(st, rel_path, inc, resolved) ==
    IF resolved # None
    THEN [st EXCEPT !.dependencies[rel_path] = @ \cup {resolved},
                    !.reverse_deps[rel_path] = @ \cup {resolved}]
    ELSE IF ~inc.is_system
    THEN [st EXCEPT !.unresolved[rel_path] = @ \cup {inc.path}]
    ELSE st

\* Record without the test of line 227.
RecordAllUnresolved(st, rel_path, inc, resolved) ==
    IF resolved # None
    THEN [st EXCEPT !.dependencies[rel_path] = @ \cup {resolved},
                    !.reverse_deps[resolved] = @ \cup {rel_path}]
    ELSE [st EXCEPT !.unresolved[rel_path] = @ \cup {inc.path}]

\* Lines 224-228: record one include's outcome.
Record(st, rel_path, inc, resolved) ==
    IF resolved # None
    THEN [st EXCEPT !.dependencies[rel_path] = @ \cup {resolved},
                    !.reverse_deps[resolved] = @ \cup {rel_path}]
    ELSE IF ~inc.is_system
    THEN [st EXCEPT !.unresolved[rel_path] = @ \cup {inc.path}]
    ELSE st

RECURSIVE ResolveFile(_, _, _, _)
ResolveFile(st, fileSeq, rel_path, incs) ==
    IF incs = <<>> THEN st
    ELSE ResolveFile(Record(st, rel_path, Head(incs),
                            Resolve(fileSeq, rel_path, Head(incs).path)),
                     fileSeq, rel_path, Tail(incs))

RECURSIVE ResolveFrom(_, _, _, _)
ResolveFrom(st, fileSeq, raw, i) ==
    IF i > Len(fileSeq) THEN st
    ELSE ResolveFrom(ResolveFile(st, fileSeq, fileSeq[i], raw[fileSeq[i]]),
                     fileSeq, raw, i + 1)

ResolveAll(fileSeq, raw) ==
    ResolveFrom([dependencies |-> EmptyMap, reverse_deps |-> EmptyMap,
                 unresolved |-> EmptyMap], fileSeq, raw, 1)

-----------------------------------------------------------------------------
(* Derived reports: get_stats and the fanIn / fanOut of generate_html_report *)

fanIn(f)  == Cardinality(reverse_deps[f])
fanOut(f) == Cardinality(dependencies[f])

RECURSIVE SumCard(_, _)
SumCard(m, S) ==
    IF S = {} THEN 0
    ELSE LET x == CHOOSE y \in S : TRUE IN Cardinality(m[x]) + SumCard(m, S \ {x})

unresolved_includes == SumCard(unresolved, Paths)
total_dependencies  == SumCard(dependencies, Paths)

-----------------------------------------------------------------------------
(* DependencyScanner.find_cycles                                           *)

\* dfs(node): the set of states the call can end in, one per iteration order
\* of the neighbor sets (a Python set iterates in no specified order).
\* st.cycle is the returned list, None when dfs returns None; st.calls counts
\* the calls of dfs.
RECURSIVE dfs(_, _), dfsLoop(_, _, _)

\* dfsLoop that enters dfs on every neighbor outside the recursion stack,
\* visited before or not.
RECURSIVE dfsLoopRevisit(_, _, _)
dfsLoopRevisit(node, rest, st) ==
    IF rest = {}
    THEN {[st EXCEPT !.path = SubSeq(@, 1, Len(@) - 1),
                     !.rec_stack = @ \ {node},
                     !.cycle = None]}
    ELSE UNION {
        IF neighbor \notin st.rec_stack
        THEN UNION { IF r.cycle # None THEN {r}
                     ELSE dfsLoopRevisit(node, rest \ {neighbor}, r) :
                         r \in dfs(neighbor, st) }
        ELSE {[st EXCEPT !.cycle = SubSeq(st.path, Index(st.path, neighbor),
                                          Len(st.path)) \o <<neighbor>>]}
        : neighbor \in rest }

\* dfsLoop that does not take a file's include of itself for a cycle.
RECURSIVE dfsLoopNoSelf(_, _, _)
dfsLoopNoSelf(node, rest, st) ==
    IF rest = {}
    THEN {[st EXCEPT !.path = SubSeq(@, 1, Len(@) - 1),
                     !.rec_stack = @ \ {node},
                     !.cycle = None]}
    ELSE UNION {
        IF neighbor \notin st.visited
        THEN UNION { IF r.cycle # None THEN {r}
                     ELSE dfsLoopNoSelf(node, rest \ {neighbor}, r) :
                         r \in dfs(neighbor, st) }
        ELSE IF neighbor \in st.rec_stack /\ neighbor # node
        THEN {[st EXCEPT !.cycle = SubSeq(st.path, Index(st.path, neighbor),
                                          Len(st.path)) \o <<neighbor>>]}
        ELSE dfsLoopNoSelf(node, rest \ {neighbor}, st)
        : neighbor \in rest }

dfs(node, st) ==
    dfsLoop(node, dependencies[node],
            [st EXCEPT !.visited = @ \cup {node},
                       !.rec_stack = @ \cup {node},
                       !.path = Append(@, node),
                       !.calls = @ + 1])

dfsLoop(node, rest, st) ==
    IF rest = {}
    THEN {[st EXCEPT !.path = SubSeq(@, 1, Len(@) - 1),
                     !.rec_stack = @ \ {node},
                     !.cycle = None]}
    ELSE UNION {
        IF neighbor \notin st.visited
        THEN UNION { IF r.cycle # None THEN {r}
                     ELSE dfsLoop(node, rest \ {neighbor}, r) : r \in dfs(neighbor, st) }
        ELSE IF neighbor \in st.rec_stack
        THEN {[st EXCEPT !.cycle = SubSeq(st.path, Index(st.path, neighbor),
                                          Len(st.path)) \o <<neighbor>>]}
        ELSE dfsLoop(node, rest \ {neighbor}, st)
        : neighbor \in rest }

\* Normalize without the rotation.
NormalizeUnrotated(cycle) == cycle

\* Normalize rotating to the largest element.
NormalizeToMax(cycle) ==
    LET body    == SubSeq(cycle, 1, Len(cycle) - 1)
        max_idx == Index(cycle, CHOOSE x \in Range(body) :
                                    \A y \in Range(body) : y = x \/ LexLess(y, x))
    IN  SubSeq(cycle, max_idx, Len(cycle) - 1) \o SubSeq(cycle, 1, max_idx - 1)
            \o <<cycle[max_idx]>>

\* Lines 279-280: rotate the cycle to start at its smallest element.
Normalize(cycle) ==
    LET body    == SubSeq(cycle, 1, Len(cycle) - 1)
        min_idx == Index(cycle, MinOf(body))
    IN  SubSeq(cycle, min_idx, Len(cycle) - 1) \o SubSeq(cycle, 1, min_idx - 1)
            \o <<cycle[min_idx]>>

-----------------------------------------------------------------------------
(* Actions of a DependencyScanner run: scan(), then find_cycles().         *)

\* main without the validation of the project path.
MainUnvalidated ==
    /\ pc = "main"
    /\ pc' = "init"
    /\ UNCHANGED <<scanVars, cycleVars, normVars, callVars, layerVars, analysisVars>>

\* main of cdep_analyzer.py, up to the construction of the scanner: a project
\* path that is no directory ends the run with sys.exit(1).
Main ==
    /\ pc = "main"
    /\ pc' = IF isdir THEN "init" ELSE "exit"
    /\ UNCHANGED <<scanVars, cycleVars, normVars, callVars, layerVars, analysisVars>>

FindFiles ==
    /\ pc = "init"
    /\ files' = walk
    /\ raw_includes' = [f \in Range(walk) |-> <<>>]
    /\ pc' = "parse"
    /\ UNCHANGED <<isdir, unreadable, walk, content, include_system, dependencies, reverse_deps,
                   unresolved, cycleVars, normVars, callVars, layerVars, analysisVars>>

ParseIncludes ==
    /\ pc = "parse"
    /\ raw_includes' = ParseAll(files, content, include_system, unreadable)
    /\ pc' = "resolve"
    /\ UNCHANGED <<isdir, unreadable, walk, content, include_system, files, dependencies,
                   reverse_deps, unresolved, cycleVars, normVars, callVars,
                   layerVars, analysisVars>>

ResolveDependencies ==
    /\ pc = "resolve"
    /\ LET st == ResolveAll(files, raw_includes)
       IN  /\ dependencies' = st.dependencies
           /\ reverse_deps' = st.reverse_deps
           /\ unresolved' = st.unresolved
    /\ pc' = "scanned"
    /\ UNCHANGED <<isdir, unreadable, walk, content, include_system, files, raw_includes, cycleVars,
                   normVars, callVars, layerVars, analysisVars>>

FindCyclesBegin ==
    /\ pc = "scanned"
    /\ cycles' = <<>>
    /\ visited' = {}
    /\ rec_stack' = {}
    /\ path' = <<>>
    /\ root' = 1
    /\ dfs_calls' = 0
    /\ pc' = "cycles"
    /\ UNCHANGED <<scanVars, normVars, callVars, layerVars, analysisVars>>

\* One iteration of "for node in self.files".
FindCyclesRoot ==
    /\ pc = "cycles"
    /\ root <= Len(files)
    /\ LET node == files[root]
       IN  IF node \notin visited
           THEN \E r \in dfs(node, [visited |-> visited, rec_stack |-> rec_stack,
                                    path |-> path, cycle |-> None,
                                    calls |-> dfs_calls]) :
                    /\ dfs_calls' = r.calls
                    /\ visited' = r.visited
                    /\ rec_stack' = r.rec_stack
                    /\ path' = r.path
                    /\ cycles' = IF r.cycle # None /\ Normalize(r.cycle) \notin Range(cycles)
                                 THEN Append(cycles, Normalize(r.cycle))
                                 ELSE cycles
           ELSE UNCHANGED <<cycles, visited, rec_stack, path, dfs_calls>>
    /\ root' = root + 1
    /\ UNCHANGED <<pc, scanVars, normVars, callVars, layerVars, analysisVars>>

FindCyclesReturn ==
    /\ pc = "cycles"
    /\ root > Len(files)
    /\ pc' = "done"
    /\ UNCHANGED <<scanVars, cycleVars, normVars, callVars, layerVars, analysisVars>>

IdleCycleVars ==
    /\ cycles = <<>>
    /\ visited = {}
    /\ rec_stack = {}
    /\ path = <<>>
    /\ root = 0
    /\ dfs_calls = 0

\* No CCodeParser has been constructed.
IdleNormVars ==
    /\ code = <<>>
    /\ clean = <<>>

\* No CallGraphAnalyzer or InterfaceScanner has been constructed.
IdleCallVars ==
    /\ source = <<>>
    /\ functions = <<>>
    /\ call_edges = <<>>
    /\ file_functions = <<>>
    /\ structs = <<>>
    /\ enums = <<>>
    /\ struct_usage = <<>>
    /\ enum_usage = <<>>
    /\ pass_pos = 0

\* ProcedureAnalyzer and ModuleAnalyzer are not constructed.
IdleAnalysisVars ==
    /\ procedures = <<>>
    /\ modules = <<>>

\* analyze_deps.py is not running.
IdleLayerVars ==
    /\ layer_deps = <<>>
    /\ fan_in = <<>>
    /\ fan_out = <<>>
    /\ instability = <<>>

\* The sets of at most n elements of S.
UpTo(S, n) == {T \in SUBSET S : Cardinality(T) <= n}

Init ==
    /\ pc = "main"
    /\ isdir \in BOOLEAN
    /\ walk \in IF isdir THEN InjSeqs(FileUniverse, MaxFiles) ELSE {<<>>}
    /\ unreadable \in UpTo(Range(walk), MaxUnreadable)
    /\ content \in {c \in [Range(walk) -> FileContents] :
                        \A f \in unreadable : c[f] \in UnreadableContents}
    /\ include_system \in BOOLEAN
    /\ files = <<>>
    /\ raw_includes = <<>>
    /\ dependencies = EmptyMap
    /\ reverse_deps = EmptyMap
    /\ unresolved = EmptyMap
    /\ IdleCycleVars
    /\ IdleNormVars
    /\ IdleCallVars
    /\ IdleLayerVars
    /\ IdleAnalysisVars

CycleNext == FindCyclesBegin \/ FindCyclesRoot \/ FindCyclesReturn

Next == Main \/ FindFiles \/ ParseIncludes \/ ResolveDependencies \/ CycleNext

Spec == Init /\ [][Next]_vars

-----------------------------------------------------------------------------
(* find_cycles explored on its own: the state after scan() of a project    *)
(* whose files all lie in the root directory and include each other by     *)
(* name in quote form.                                                     *)

RECURSIVE SortedSeq(_)
SortedSeq(S) ==
    IF S = {} THEN <<>>
    ELSE LET m == CHOOSE x \in S : \A y \in S : y = x \/ LexLess(x, y)
         IN  <<m>> \o SortedSeq(S \ {m})

QuoteAll(s) == [i \in DOMAIN s |-> Quote(s[i])]

InitCycles ==
    /\ pc = "scanned"
    /\ isdir = TRUE
    /\ unreadable = {}
    /\ walk \in InjSeqs(CycleUniverse, MaxNodes)
    /\ \E g \in [Range(walk) -> SUBSET Range(walk)] :
          /\ SumCard(g, Range(walk)) <= MaxEdges
          /\ content = [f \in Range(walk) |-> QuoteAll(SortedSeq(g[f]))]
    /\ include_system = FALSE
    /\ files = walk
    /\ raw_includes = ParseAll(walk, content, FALSE, {})
    /\ LET st == ResolveAll(walk, raw_includes)
       IN  /\ dependencies = st.dependencies
           /\ reverse_deps = st.reverse_deps
           /\ unresolved = st.unresolved
    /\ IdleCycleVars
    /\ IdleNormVars
    /\ IdleCallVars
    /\ IdleLayerVars
    /\ IdleAnalysisVars

SpecCycles == InitCycles /\ [][CycleNext]_vars

\* find_cycles is a sequential function: while a step of it is enabled, one
\* is taken.
FairSpecCycles == SpecCycles /\ WF_vars(CycleNext)

-----------------------------------------------------------------------------
(* CCodeParser._remove_comments_and_strings (func_scanning.py)             *)

MaxLen == 5

\* The characters the normalizer tells apart; "x" stands for any other one.
NormAlphabet == {"\"", "'", "\\", "/", "*", "\n", "x"}

Texts(alphabet, n) == UNION {[1..k -> alphabet] : k \in 0..n}

\* code[i:i+2] of Python, for the 1-based position i
Slice2(c, i) == SubSeq(c, i, IF i + 1 <= Len(c) THEN i + 1 ELSE Len(c))

Spaces(n) == [k \in 1..n |-> " "]

\* Line 286: the position the line-comment loop stops at.
RECURSIVE LineCommentEnd(_, _)
LineCommentEnd(c, i) ==
    IF i <= Len(c) /\ c[i] # "\n" THEN LineCommentEnd(c, i + 1) ELSE i

\* Line 296: the position the block-comment loop stops at.
RECURSIVE BlockCommentEnd(_, _)
BlockCommentEnd(c, i) ==
    IF i <= Len(c) - 1 /\ Slice2(c, i) # <<"*", "/">>
    THEN BlockCommentEnd(c, i + 1) ELSE i

\* Line 297: the inside of a block comment, blanked with its newlines kept.
BlankKeepingNewlines(c, from, to) ==
    [k \in 1..(to - from + 1) |-> IF c[from + k - 1] # "\n" THEN " " ELSE "\n"]

\* The while loop of lines 250-306; i is the 1-based position.
RECURSIVE Strip(_, _, _, _, _, _)
Strip(c, i, in_string, in_char, string_char, result) ==
    IF i > Len(c) THEN result
    ELSE IF ~in_string /\ ~in_char /\ c[i] = "\"" /\ (i = 1 \/ c[i - 1] # "\\")
    THEN Strip(c, i + 1, TRUE, in_char, "\"", Append(result, " "))
    ELSE IF ~in_string /\ ~in_char /\ c[i] = "'" /\ (i = 1 \/ c[i - 1] # "\\")
    THEN Strip(c, i + 1, in_string, TRUE, string_char, Append(result, " "))
    ELSE IF in_string /\ c[i] = string_char /\ c[i - 1] # "\\"
    THEN Strip(c, i + 1, FALSE, in_char, string_char, Append(result, " "))
    ELSE IF in_char /\ c[i] = "'" /\ c[i - 1] # "\\"
    THEN Strip(c, i + 1, in_string, FALSE, string_char, Append(result, " "))
    ELSE IF in_string \/ in_char
    THEN Strip(c, i + 1, in_string, in_char, string_char, Append(result, " "))
    ELSE IF Slice2(c, i) = <<"/", "/">>
    THEN LET j == LineCommentEnd(c, i)
         IN  Strip(c, j, in_string, in_char, string_char, result \o Spaces(j - i))
    ELSE IF Slice2(c, i) = <<"/", "*">>
    THEN LET j == BlockCommentEnd(c, i + 2)
             r == result \o Spaces(2) \o BlankKeepingNewlines(c, i + 2, j - 1)
         IN  IF j <= Len(c) - 1
             THEN Strip(c, j + 2, in_string, in_char, string_char, r \o Spaces(2))
             ELSE Strip(c, j, in_string, in_char, string_char, r)
    ELSE Strip(c, i + 1, in_string, in_char, string_char, Append(result, c[i]))

remove_comments_and_strings(c) == Strip(c, 1, FALSE, FALSE, "", <<>>)

\* text[:pos].count('\n') + 1, for the 0-based offset pos
get_line_number(text, pos) ==
    Cardinality({k \in 1..pos : k <= Len(text) /\ text[k] = "\n"}) + 1

\* CCodeParser.__init__
ParserInit ==
    /\ pc = "raw"
    /\ clean' = remove_comments_and_strings(code)
    /\ pc' = "clean"
    /\ UNCHANGED <<code, scanVars, cycleVars, callVars, layerVars, analysisVars>>

InitNorm ==
    /\ pc = "raw"
    /\ code \in Texts(NormAlphabet, MaxLen)
    /\ clean = <<>>
    /\ isdir = TRUE
    /\ unreadable = {}
    /\ walk = <<>>
    /\ content = <<>>
    /\ include_system = FALSE
    /\ files = <<>>
    /\ raw_includes = <<>>
    /\ dependencies = EmptyMap
    /\ reverse_deps = EmptyMap
    /\ unresolved = EmptyMap
    /\ IdleCycleVars
    /\ IdleCallVars
    /\ IdleLayerVars
    /\ IdleAnalysisVars

NextNorm == ParserInit

SpecNorm == InitNorm /\ [][NextNorm]_vars

-----------------------------------------------------------------------------
(* codebase_reviewer.py: the text model.                                   *)
(*                                                                         *)
(* A source text is a sequence of elements: a word (a maximal run of \w    *)
(* characters, one string) or a single other character.  Every pattern     *)
(* below delimits its \w+ groups by a non-word character, so it matches    *)
(* whole words only; no word of the model's texts has "struct", "union",   *)
(* "enum" or "typedef" as a proper suffix, which the unanchored struct and *)
(* enum patterns could match inside a word.                                *)

Punctuation == {" ", "\n", "\t", "(", ")", "{", "}", ";", "*", "/", "\"",
                "'", "\\", "=", ",", ".", "-", ">", "<", "!", "[", "]", "#",
                "+", "&", "|", ":", "?", "%", "^", "~"}

\* The words of one character.
OneCharWords ==
    {"a", "b", "c", "d", "e", "f", "g", "h", "i", "j", "k", "l", "m", "n", "o",
     "p", "q", "r", "s", "t", "u", "v", "w", "x", "y", "z",
     "A", "B", "C", "D", "E", "F", "G", "H", "I", "J", "K", "L", "M", "N", "O",
     "P", "Q", "R", "S", "T", "U", "V", "W", "X", "Y", "Z",
     "0", "1", "2", "3", "4", "5", "6", "7", "8", "9", "_"}

IsSpace(e) == e \in {" ", "\n", "\t"}
IsWord(e)  == e # "" /\ e \notin Punctuation

\* the element at position p, "" past the end
At(t, p) == IF p \in DOMAIN t THEN t[p] ELSE ""

\* \s*
RECURSIVE SkipSpaces(_, _)
SkipSpaces(t, p) == IF IsSpace(At(t, p)) THEN SkipSpaces(t, p + 1) ELSE p

\* the first position >= p holding ch, 0 when there is none
RECURSIVE Find(_, _, _)
Find(t, p, ch) ==
    IF p > Len(t) THEN 0 ELSE IF t[p] = ch THEN p ELSE Find(t, p + 1, ch)

\* str.strip()
RECURSIVE Trim(_)
Trim(t) ==
    IF t # <<>> /\ IsSpace(Head(t)) THEN Trim(Tail(t))
    ELSE IF t # <<>> /\ IsSpace(t[Len(t)]) THEN Trim(SubSeq(t, 1, Len(t) - 1))
    ELSE t

\* str.split('\n')
RECURSIVE SplitLines(_, _)
SplitLines(t, cur) ==
    IF t = <<>> THEN <<cur>>
    ELSE IF Head(t) = "\n" THEN <<cur>> \o SplitLines(Tail(t), <<>>)
    ELSE SplitLines(Tail(t), Append(cur, Head(t)))

C_KEYWORDS ==
    {"if", "else", "for", "while", "do", "switch", "case", "default",
     "return", "break", "continue", "goto", "sizeof", "typeof",
     "struct", "union", "enum", "typedef", "const", "static", "extern",
     "inline", "volatile", "register", "auto", "signed", "unsigned",
     "void", "char", "short", "int", "long", "float", "double",
     "NULL", "true", "false"}

NoMatch == [ok |-> FALSE]

\* (?:kw\s+)? taken
Opt(t, p, kw) ==
    IF At(t, p) = kw /\ IsSpace(At(t, p + 1)) THEN SkipSpaces(t, p + 1) ELSE p

\* (?:\s*\*)* , greedy
RECURSIVE Stars(_, _)
Stars(t, p) ==
    IF At(t, SkipSpaces(t, p)) = "*" THEN Stars(t, SkipSpaces(t, p) + 1) ELSE p

\* PATTERNS['func_def'] after its optional modifiers:
\* (\w+(?:\s*\*)*)\s+(\w+)\s*\(([^)]*)\)\s*\{
FuncDefCore(t, p) ==
    LET afterType == Stars(t, p + 1)
        nameAt    == SkipSpaces(t, afterType)
        parenAt   == SkipSpaces(t, nameAt + 1)
        closeAt   == Find(t, parenAt + 1, ")")
        braceAt   == SkipSpaces(t, closeAt + 1)
    IN  IF /\ IsWord(At(t, p))
           /\ IsSpace(At(t, afterType))
           /\ IsWord(At(t, nameAt))
           /\ At(t, parenAt) = "("
           /\ closeAt # 0
           /\ At(t, braceAt) = "{"
        THEN [ok |-> TRUE,
              return_type |-> Trim(SubSeq(t, p, afterType - 1)),
              name |-> t[nameAt],
              params |-> Trim(SubSeq(t, parenAt + 1, closeAt - 1)),
              end |-> braceAt + 1]
        ELSE NoMatch

\* PATTERNS['func_def'] tried at position p (the caller anchors p at a line
\* start): each of static, inline, const is taken or left, by backtracking.
\* At most one choice matches, since the name is the word before the first
\* "(" and the type the word before it.
FuncDefAt(t, p) ==
    LET s1 == {p, Opt(t, p, "static")}
        s2 == s1 \cup {Opt(t, q, "inline") : q \in s1}
        s3 == s2 \cup {Opt(t, q, "const") : q \in s2}
        ok == {q \in s3 : FuncDefCore(t, q).ok}
    IN  IF ok # {} THEN FuncDefCore(t, CHOOSE q \in ok : TRUE) ELSE NoMatch

\* PATTERNS['func_def'].finditer(content): ^ matches after every newline.
RECURSIVE FuncDefIter(_, _)
FuncDefIter(t, p) ==
    IF p > Len(t) THEN <<>>
    ELSE IF (p = 1 \/ t[p - 1] = "\n") /\ FuncDefAt(t, p).ok
    THEN <<FuncDefAt(t, p)>> \o FuncDefIter(t, FuncDefAt(t, p).end)
    ELSE FuncDefIter(t, p + 1)

\* PATTERNS['func_call'].finditer(line): \b(\w+)\s*\(
RECURSIVE FuncCallIter(_, _)
FuncCallIter(t, p) ==
    IF p > Len(t) THEN <<>>
    ELSE IF IsWord(t[p]) /\ At(t, SkipSpaces(t, p + 1)) = "("
    THEN <<t[p]>> \o FuncCallIter(t, SkipSpaces(t, p + 1) + 1)
    ELSE FuncCallIter(t, p + 1)

\* PATTERNS['struct'] tried at position p: the first alternative
\* (?:typedef\s+)?(?:struct|union)\s+(\w+)\s*\{([^}]*)\}, then the second,
\* typedef\s+(?:struct|union)\s*\{([^}]*)\}\s*(\w+)\s*;
StructAt(t, p) ==
    LET kw1     == Opt(t, p, "typedef")
        name1   == SkipSpaces(t, kw1 + 1)
        open1   == SkipSpaces(t, name1 + 1)
        close1  == Find(t, open1 + 1, "}")
        first(k) == /\ At(t, k) \in {"struct", "union"}
                    /\ IsSpace(At(t, k + 1))
                    /\ IsWord(At(t, SkipSpaces(t, k + 1)))
                    /\ At(t, SkipSpaces(t, SkipSpaces(t, k + 1) + 1)) = "{"
                    /\ Find(t, SkipSpaces(t, SkipSpaces(t, k + 1) + 1) + 1, "}") # 0
        kw2     == SkipSpaces(t, p + 1)
        open2   == SkipSpaces(t, kw2 + 1)
        close2  == Find(t, open2 + 1, "}")
        name2   == SkipSpaces(t, close2 + 1)
        semi2   == SkipSpaces(t, name2 + 1)
        k1      == IF first(kw1) THEN kw1 ELSE p
    IN  IF first(k1)
        THEN [ok |-> TRUE, name |-> t[SkipSpaces(t, k1 + 1)],
              end |-> Find(t, SkipSpaces(t, SkipSpaces(t, k1 + 1) + 1) + 1, "}") + 1]
        ELSE IF /\ At(t, p) = "typedef"
                /\ IsSpace(At(t, p + 1))
                /\ At(t, kw2) \in {"struct", "union"}
                /\ At(t, open2) = "{"
                /\ close2 # 0
                /\ IsWord(At(t, name2))
                /\ At(t, semi2) = ";"
        THEN [ok |-> TRUE, name |-> t[name2], end |-> semi2 + 1]
        ELSE NoMatch

\* PATTERNS['struct'].finditer(content)
RECURSIVE StructIter(_, _)
StructIter(t, p) ==
    IF p > Len(t) THEN <<>>
    ELSE IF StructAt(t, p).ok
    THEN <<StructAt(t, p)>> \o StructIter(t, StructAt(t, p).end)
    ELSE StructIter(t, p + 1)

\* PATTERNS['enum'] tried at position p: the first alternative
\* (?:typedef\s+)?enum\s+(\w*)\s*\{([^}]*)\}, whose name may be empty, then
\* the second, typedef\s+enum\s*\{([^}]*)\}\s*(\w+)\s*;.  The name is the text
\* of group 1 ("" when it is empty) or of group 4.
EnumAt(t, p) ==
    LET first(k) ==
            LET n    == SkipSpaces(t, k + 1)
                open == IF IsWord(At(t, n)) THEN SkipSpaces(t, n + 1) ELSE n
            IN  IF /\ At(t, k) = "enum"
                   /\ IsSpace(At(t, k + 1))
                   /\ At(t, open) = "{"
                   /\ Find(t, open + 1, "}") # 0
                THEN [ok |-> TRUE, group1 |-> TRUE,
                      name |-> IF IsWord(At(t, n)) THEN t[n] ELSE "",
                      end |-> Find(t, open + 1, "}") + 1]
                ELSE NoMatch
        kw1   == Opt(t, p, "typedef")
        kw2   == SkipSpaces(t, p + 1)
        open2 == SkipSpaces(t, kw2 + 1)
        close2 == Find(t, open2 + 1, "}")
        name2 == SkipSpaces(t, close2 + 1)
        semi2 == SkipSpaces(t, name2 + 1)
    IN  IF At(t, p) = "typedef" /\ first(kw1).ok THEN first(kw1)
        ELSE IF first(p).ok THEN first(p)
        ELSE IF /\ At(t, p) = "typedef"
                /\ IsSpace(At(t, p + 1))
                /\ At(t, kw2) = "enum"
                /\ At(t, open2) = "{"
                /\ close2 # 0
                /\ IsWord(At(t, name2))
                /\ At(t, semi2) = ";"
        THEN [ok |-> TRUE, group1 |-> FALSE, name |-> t[name2], end |-> semi2 + 1]
        ELSE NoMatch

\* PATTERNS['enum'].finditer(content)
RECURSIVE EnumIter(_, _)
EnumIter(t, p) ==
    IF p > Len(t) THEN <<>>
    ELSE IF EnumAt(t, p).ok
    THEN <<EnumAt(t, p)>> \o EnumIter(t, EnumAt(t, p).end)
    ELSE EnumIter(t, p + 1)

\* [\*\s]*
RECURSIVE SkipStarsSpaces(_, _)
SkipStarsSpaces(t, p) ==
    IF IsSpace(At(t, p)) \/ At(t, p) = "*" THEN SkipStarsSpaces(t, p + 1) ELSE p

\* type_pattern of _scan_usage for a struct name, tried at position p:
\* \b(?:struct\s+)?NAME\b\s*[\*\s]+(\w+)
TypeRefAt(t, p, struct_name) ==
    LET core(nameAt) ==
            LET varAt == SkipStarsSpaces(t, nameAt + 1)
            IN  IF /\ At(t, nameAt) = struct_name
                   /\ varAt > nameAt + 1
                   /\ IsWord(At(t, varAt))
                THEN [ok |-> TRUE, var |-> t[varAt], end |-> varAt + 1]
                ELSE NoMatch
        afterKw == SkipSpaces(t, p + 1)
    IN  IF At(t, p) = "struct" /\ IsSpace(At(t, p + 1)) /\ core(afterKw).ok
        THEN core(afterKw)
        ELSE core(p)

\* type_pattern.finditer(content): the variable names matched, in order
RECURSIVE TypeRefIter(_, _, _)
TypeRefIter(t, p, struct_name) ==
    IF p > Len(t) THEN <<>>
    ELSE IF TypeRefAt(t, p, struct_name).ok
    THEN <<TypeRefAt(t, p, struct_name).var>>
            \o TypeRefIter(t, TypeRefAt(t, p, struct_name).end, struct_name)
    ELSE TypeRefIter(t, p + 1, struct_name)

\* The position after "->" or "." at position a, 0 if neither is there.
AfterAccess(t, a) ==
    IF At(t, a) = "." THEN a + 1
    ELSE IF At(t, a) = "-" /\ At(t, a + 1) = ">" THEN a + 2
    ELSE 0

\* var_write tried at position p, the end of the match or 0:
\* \bVAR\s*(?:->|\.)\s*\w+\s*=  |  \bVAR\s*=\s*[^=]
\* ([^=] takes the element after the spaces, or the last space before an "="
\* or before the end of the text.)
WriteAt(t, p, var_name) ==
    LET a == SkipSpaces(t, p + 1)
        m == AfterAccess(t, a)
        w == SkipSpaces(t, m)
        e == SkipSpaces(t, w + 1)
        b == SkipSpaces(t, a + 1)
    IN  IF At(t, p) # var_name THEN 0
        ELSE IF m # 0 /\ IsWord(At(t, w)) /\ At(t, e) = "=" THEN e + 1
        ELSE IF At(t, a) = "="
        THEN (IF At(t, b) \notin {"", "="} THEN b + 1
              ELSE IF b > a + 1 THEN b ELSE 0)
        ELSE 0

\* len(var_write.findall(content))
RECURSIVE CountWrites(_, _, _)
CountWrites(t, p, var_name) ==
    IF p > Len(t) THEN 0
    ELSE IF WriteAt(t, p, var_name) # 0
    THEN 1 + CountWrites(t, WriteAt(t, p, var_name), var_name)
    ELSE CountWrites(t, p + 1, var_name)

\* var_read tried at position p, the end of the match or 0:
\* \bVAR\s*(?:->|\.)\s*\w+(?!\s*=)  |  \(\s*VAR\s*[,)]
\* (When the member is followed by "=", \w+ gives back its last character and
\* the lookahead succeeds, unless the member has one character only.)
ReadAt(t, p, var_name) ==
    LET a == SkipSpaces(t, p + 1)
        m == AfterAccess(t, a)
        w == SkipSpaces(t, m)
        v == SkipSpaces(t, p + 1)
        c == SkipSpaces(t, v + 1)
    IN  IF /\ At(t, p) = var_name
           /\ m # 0
           /\ IsWord(At(t, w))
           /\ (At(t, w) \notin OneCharWords \/ At(t, SkipSpaces(t, w + 1)) # "=")
        THEN w + 1
        ELSE IF At(t, p) = "(" /\ At(t, v) = var_name /\ At(t, c) \in {",", ")"}
        THEN c + 1
        ELSE 0

\* len(var_read.findall(content))
RECURSIVE CountReads(_, _, _)
CountReads(t, p, var_name) ==
    IF p > Len(t) THEN 0
    ELSE IF ReadAt(t, p, var_name) # 0
    THEN 1 + CountReads(t, ReadAt(t, p, var_name), var_name)
    ELSE CountReads(t, p + 1, var_name)

\* info['is_header'] of _find_files, for the files of the model
is_header(f) == EndsWith(f, <<".", "h">>)

-----------------------------------------------------------------------------
(* InterfaceScanner (first pass) and CallGraphAnalyzer.                    *)

\* InterfaceScanner._parse_structs: the name and file of each definition.
RECURSIVE parse_structs(_, _, _)
parse_structs(acc, matches, file_path) ==
    IF matches = <<>> THEN acc
    ELSE parse_structs(Append(acc, [name |-> Head(matches).name, file |-> file_path]),
                       Tail(matches), file_path)

\* find_definitions that keeps the entry a name already has: the first
\* definition scanned wins.
RECURSIVE find_definitions_keep_first(_, _, _)
find_definitions_keep_first(st, matches, file_path) ==
    IF matches = <<>> THEN st
    ELSE LET m == Head(matches)
         IN  IF m.name \in C_KEYWORDS
             THEN find_definitions_keep_first(st, Tail(matches), file_path)
             ELSE find_definitions_keep_first(
                    [functions |->
                        st.functions @@
                        (m.name :> [name |-> m.name, file |-> file_path,
                                    return_type |-> m.return_type,
                                    params |-> m.params,
                                    calls |-> {}, called_by |-> {}]),
                     file_functions |->
                        [st.file_functions EXCEPT ![file_path] = Append(@, m.name)]],
                    Tail(matches), file_path)

\* CallGraphAnalyzer._find_definitions, over the matches of func_def.
RECURSIVE find_definitions(_, _, _)
find_definitions(st, matches, file_path) ==
    IF matches = <<>> THEN st
    ELSE LET m == Head(matches)
         IN  IF m.name \in C_KEYWORDS
             THEN find_definitions(st, Tail(matches), file_path)
             ELSE find_definitions(
                    [functions |->
                        (m.name :> [name |-> m.name, file |-> file_path,
                                    return_type |-> m.return_type,
                                    params |-> m.params,
                                    calls |-> {}, called_by |-> {}])
                        @@ st.functions,
                     file_functions |->
                        [st.file_functions EXCEPT ![file_path] = Append(@, m.name)]],
                    Tail(matches), file_path)

\* record_calls without the test of line 617: the edge is recorded whether
\* or not the callee is a known function.
RECURSIVE record_calls_unchecked(_, _, _)
record_calls_unchecked(st, callees, current_func) ==
    IF callees = <<>> \/ st.crashed THEN st
    ELSE LET callee == Head(callees)
         IN  IF callee \in C_KEYWORDS \/ callee = current_func
             THEN record_calls_unchecked(st, Tail(callees), current_func)
             ELSE IF current_func \notin DOMAIN st.functions
             THEN [st EXCEPT !.crashed = TRUE]
             ELSE record_calls_unchecked(
                    [st EXCEPT !.functions[current_func].calls = @ \cup {callee},
                               !.call_edges = Append(@, <<current_func, callee>>)],
                    Tail(callees), current_func)

\* record_calls that records a call only for a callee nobody has been seen
\* to call yet: the first caller scanned wins.
RECURSIVE record_calls_first_caller(_, _, _)
record_calls_first_caller(st, callees, current_func) ==
    IF callees = <<>> \/ st.crashed THEN st
    ELSE LET callee == Head(callees)
         IN  IF callee \in C_KEYWORDS \/ callee = current_func
                \/ callee \notin DOMAIN st.functions
             THEN record_calls_first_caller(st, Tail(callees), current_func)
             ELSE IF current_func \notin DOMAIN st.functions
             THEN [st EXCEPT !.crashed = TRUE]
             ELSE IF st.functions[callee].called_by # {}
             THEN record_calls_first_caller(st, Tail(callees), current_func)
             ELSE record_calls_first_caller(
                    [st EXCEPT !.functions[current_func].calls = @ \cup {callee},
                               !.functions[callee].called_by = @ \cup {current_func},
                               !.call_edges = Append(@, <<current_func, callee>>)],
                    Tail(callees), current_func)

\* record_calls without line 619: the caller's calls set and the edge list
\* are updated, the callee's called_by set is not.
RECURSIVE record_calls_one_sided(_, _, _)
record_calls_one_sided(st, callees, current_func) ==
    IF callees = <<>> \/ st.crashed THEN st
    ELSE LET callee == Head(callees)
         IN  IF callee \in C_KEYWORDS \/ callee = current_func
                \/ callee \notin DOMAIN st.functions
             THEN record_calls_one_sided(st, Tail(callees), current_func)
             ELSE IF current_func \notin DOMAIN st.functions
             THEN [st EXCEPT !.crashed = TRUE]
             ELSE record_calls_one_sided(
                    [st EXCEPT !.functions[current_func].calls = @ \cup {callee},
                               !.call_edges = Append(@, <<current_func, callee>>)],
                    Tail(callees), current_func)

\* Lines 606-620: the calls of one line, made inside current_func.
\* self.functions[current_func] raises KeyError when current_func is no key.
RECURSIVE record_calls(_, _, _)
record_calls(st, callees, current_func) ==
    IF callees = <<>> \/ st.crashed THEN st
    ELSE LET callee == Head(callees)
         IN  IF callee \in C_KEYWORDS \/ callee = current_func
                \/ callee \notin DOMAIN st.functions
             THEN record_calls(st, Tail(callees), current_func)
             ELSE IF current_func \notin DOMAIN st.functions
             THEN [st EXCEPT !.crashed = TRUE]
             ELSE record_calls(
                    [st EXCEPT !.functions[current_func].calls = @ \cup {callee},
                               !.functions[callee].called_by = @ \cup {current_func},
                               !.call_edges = Append(@, <<current_func, callee>>)],
                    Tail(callees), current_func)

\* CallGraphAnalyzer._find_calls: the loop over the lines of one file.
\* current_func is <<>> for None and <<name>> otherwise.
RECURSIVE find_calls(_, _, _)
find_calls(st, lines, current_func) ==
    IF lines = <<>> \/ st.crashed THEN st
    ELSE LET line == Head(lines)
             m    == FuncDefAt(line, 1)
         IN  IF m.ok THEN find_calls(st, Tail(lines), <<m.name>>)
             ELSE IF current_func = <<>> THEN find_calls(st, Tail(lines), current_func)
             ELSE find_calls(record_calls(st, FuncCallIter(line, 1), current_func[1]),
                             Tail(lines), current_func)

\* InterfaceScanner._parse_enums: the name and file of each definition.
RECURSIVE parse_enums(_, _, _)
parse_enums(acc, matches, file_path) ==
    IF matches = <<>> THEN acc
    ELSE LET m    == Head(matches)
             name == IF m.group1 /\ m.name = "" THEN "(anonymous)" ELSE m.name
         IN  parse_enums(Append(acc, [name |-> name, file |-> file_path]),
                         Tail(matches), file_path)

RECURSIVE SumWrites(_, _)
SumWrites(t, var_names) ==
    IF var_names = {} THEN 0
    ELSE LET v == CHOOSE x \in var_names : TRUE
         IN  CountWrites(t, 1, v) + SumWrites(t, var_names \ {v})

RECURSIVE SumReads(_, _)
SumReads(t, var_names) ==
    IF var_names = {} THEN 0
    ELSE LET v == CHOOSE x \in var_names : TRUE
         IN  CountReads(t, 1, v) + SumReads(t, var_names \ {v})

\* Lines 317-349 for one struct name: the variables declared of that type,
\* and the counts added to struct_usage[struct_name][rel_path].
VarNames(t, struct_name) == Range(TypeRefIter(t, 1, struct_name)) \ C_KEYWORDS

StructUsage(t, struct_name) ==
    [refs   |-> Len(SelectSeq(TypeRefIter(t, 1, struct_name),
                              LAMBDA v : v \notin C_KEYWORDS)),
     writes |-> SumWrites(t, VarNames(t, struct_name)),
     reads  |-> SumReads(t, VarNames(t, struct_name))]

\* The body of the loop of _scan_usage for one file that is read: the
\* entries the file adds to struct_usage, keyed by <<struct, file>>.  Each
\* key is touched in the iteration of its own file only, so its counts start
\* from the defaults.
scan_struct_usage(usage, t, rel_path, struct_names) ==
    [k \in {<<n, rel_path>> : n \in {x \in struct_names : VarNames(t, x) # {}}} |->
        StructUsage(t, k[1])] @@ usage

\* Lines 351-354: the entries the file adds to enum_usage.
scan_enum_usage(usage, t, rel_path, enum_names) ==
    [k \in {<<n, rel_path>> : n \in {x \in enum_names : x \in Range(t)}} |->
        [refs |-> 1]] @@ usage

\* Names(structs), Names(enums): the names of a list of definitions.
Names(defs) == {defs[i].name : i \in DOMAIN defs}

\* main of codebase_reviewer.py up to step 3: a project path that is no
\* directory ends the run; otherwise DependencyScanner.scan() runs and an
\* InterfaceScanner is constructed.
ReviewMain ==
    /\ pc = "review_main"
    /\ IF isdir
       THEN /\ pc' = "interface"
            /\ files' = walk
            /\ raw_includes' = ParseAll(walk, content, include_system, unreadable)
            /\ LET st == ResolveAll(walk, raw_includes')
               IN  /\ dependencies' = st.dependencies
                   /\ reverse_deps' = st.reverse_deps
                   /\ unresolved' = st.unresolved
            /\ pass_pos' = 1
       ELSE /\ pc' = "exit"
            /\ UNCHANGED <<files, raw_includes, dependencies, reverse_deps,
                           unresolved, pass_pos>>
    /\ UNCHANGED <<isdir, unreadable, walk, content, include_system, source,
                   functions, call_edges, file_functions, structs, enums,
                   struct_usage, enum_usage, cycleVars, normVars, layerVars, analysisVars>>

\* One iteration of the first pass of InterfaceScanner.scan: a header that
\* can be read is parsed for definitions.
InterfacePass ==
    /\ pc = "interface"
    /\ pass_pos <= Len(files)
    /\ LET rel_path == files[pass_pos]
       IN  IF is_header(rel_path) /\ rel_path \notin unreadable
           THEN /\ structs' = parse_structs(structs, StructIter(source[rel_path], 1),
                                            rel_path)
                /\ enums' = parse_enums(enums, EnumIter(source[rel_path], 1), rel_path)
           ELSE UNCHANGED <<structs, enums>>
    /\ pass_pos' = pass_pos + 1
    /\ UNCHANGED <<pc, source, functions, call_edges, file_functions,
                   struct_usage, enum_usage,
                   scanVars, cycleVars, normVars, layerVars, analysisVars>>

\* The first pass is over; _scan_usage is called.
ScanUsageBegin ==
    /\ pc = "interface"
    /\ pass_pos > Len(files)
    /\ pc' = "usage"
    /\ pass_pos' = 1
    /\ UNCHANGED <<source, functions, call_edges, file_functions, structs, enums,
                   struct_usage, enum_usage,
                   scanVars, cycleVars, normVars, layerVars, analysisVars>>

\* One iteration of the loop of _scan_usage over scanner.files.
ScanUsagePass ==
    /\ pc = "usage"
    /\ pass_pos <= Len(files)
    /\ LET rel_path == files[pass_pos]
       IN  IF rel_path \notin unreadable
           THEN /\ struct_usage' = scan_struct_usage(struct_usage, source[rel_path],
                                                     rel_path, Names(structs))
                /\ enum_usage' = scan_enum_usage(enum_usage, source[rel_path], rel_path,
                                                 Names(enums) \ {"(anonymous)"})
           ELSE UNCHANGED <<struct_usage, enum_usage>>
    /\ pass_pos' = pass_pos + 1
    /\ UNCHANGED <<pc, source, functions, call_edges, file_functions, structs, enums,
                   scanVars, cycleVars, normVars, layerVars, analysisVars>>

\* InterfaceScanner.scan returns; CallGraphAnalyzer is constructed.
InterfaceScanned ==
    /\ pc = "usage"
    /\ pass_pos > Len(files)
    /\ pc' = "definitions"
    /\ pass_pos' = 1
    /\ functions' = <<>>
    /\ call_edges' = <<>>
    /\ file_functions' = [f \in Range(files) |-> <<>>]
    /\ UNCHANGED <<source, structs, enums, struct_usage, enum_usage,
                   scanVars, cycleVars, normVars, layerVars, analysisVars>>

\* One iteration of the first pass of CallGraphAnalyzer.scan.
DefinitionsPass ==
    /\ pc = "definitions"
    /\ pass_pos <= Len(files)
    /\ LET rel_path == files[pass_pos]
           st == IF rel_path \in unreadable
                 THEN [functions |-> functions, file_functions |-> file_functions]
                 ELSE find_definitions([functions |-> functions,
                                        file_functions |-> file_functions],
                                       FuncDefIter(source[rel_path], 1), rel_path)
       IN  /\ functions' = st.functions
           /\ file_functions' = st.file_functions
    /\ pass_pos' = pass_pos + 1
    /\ UNCHANGED <<pc, source, call_edges, structs, enums, struct_usage, enum_usage,
                   scanVars, cycleVars, normVars, layerVars, analysisVars>>

\* DefinitionsDone without the barrier: the second pass may begin while files
\* are still waiting for the first.
DefinitionsDoneEarly ==
    /\ pc = "definitions"
    /\ pc' = "calls"
    /\ pass_pos' = 1
    /\ UNCHANGED <<source, functions, call_edges, file_functions, structs, enums,
                   struct_usage, enum_usage,
                   scanVars, cycleVars, normVars, layerVars, analysisVars>>

\* The first pass is over; the second begins.
DefinitionsDone ==
    /\ pc = "definitions"
    /\ pass_pos > Len(files)
    /\ pc' = "calls"
    /\ pass_pos' = 1
    /\ UNCHANGED <<source, functions, call_edges, file_functions, structs, enums,
                   struct_usage, enum_usage,
                   scanVars, cycleVars, normVars, layerVars, analysisVars>>

\* One iteration of the second pass of CallGraphAnalyzer.scan.
CallsPass ==
    /\ pc = "calls"
    /\ pass_pos <= Len(files)
    /\ LET rel_path == files[pass_pos]
           st == IF is_header(rel_path) \/ rel_path \in unreadable
                 THEN [functions |-> functions, call_edges |-> call_edges,
                       crashed |-> FALSE]
                 ELSE find_calls([functions |-> functions, call_edges |-> call_edges,
                                  crashed |-> FALSE],
                                 SplitLines(source[rel_path], <<>>), <<>>)
       IN  /\ functions' = st.functions
           /\ call_edges' = st.call_edges
           /\ pc' = IF st.crashed THEN "KeyError" ELSE pc
    /\ pass_pos' = pass_pos + 1
    /\ UNCHANGED <<source, file_functions, structs, enums, struct_usage, enum_usage,
                   scanVars, cycleVars, normVars, layerVars, analysisVars>>

\* CallGraphAnalyzer.scan returns.
CallsDone ==
    /\ pc = "calls"
    /\ pass_pos > Len(files)
    /\ pc' = "reviewed"
    /\ UNCHANGED <<callVars, scanVars, cycleVars, normVars, layerVars, analysisVars>>

\* The first loop of CallGraphAnalyzer.scan over the files in the order
\* given.
RECURSIVE definitions_pass(_, _)
definitions_pass(st, fileSeq) ==
    IF fileSeq = <<>> THEN st
    ELSE LET rel_path == Head(fileSeq)
         IN  definitions_pass(
                IF rel_path \in unreadable THEN st
                ELSE find_definitions(st, FuncDefIter(source[rel_path], 1), rel_path),
                Tail(fileSeq))

\* The second loop of CallGraphAnalyzer.scan; a KeyError ends it.
RECURSIVE calls_pass(_, _)
calls_pass(st, fileSeq) ==
    IF fileSeq = <<>> \/ st.crashed THEN st
    ELSE LET rel_path == Head(fileSeq)
         IN  calls_pass(
                IF is_header(rel_path) \/ rel_path \in unreadable THEN st
                ELSE find_calls(st, SplitLines(source[rel_path], <<>>), <<>>),
                Tail(fileSeq))

\* CallGraphAnalyzer(scanner).scan() for scanner.files in the order fileSeq.
call_graph_scan(fileSeq) ==
    LET d == definitions_pass([functions |-> <<>>,
                               file_functions |-> [f \in Range(fileSeq) |-> <<>>]],
                              fileSeq)
    IN  calls_pass([functions |-> d.functions, call_edges |-> <<>>, crashed |-> FALSE],
                   fileSeq)

\* ---- ProcedureAnalyzer ----

\* str.count(ch)
CountElem(t, ch) == Cardinality({p \in DOMAIN t : t[p] = ch})

\* len(re.findall(r'\bw\b', body))
CountWord(body, w) == CountElem(body, w)

\* len(re.findall(r'\bw\s*\(', body))
CountWordParen(body, w) ==
    Cardinality({p \in DOMAIN body :
                    body[p] = w /\ At(body, SkipSpaces(body, p + 1)) = "("})

\* len(re.findall(r'\bw\s+', body))
CountWordSpace(body, w) ==
    Cardinality({p \in DOMAIN body : body[p] = w /\ IsSpace(At(body, p + 1))})

\* ProcedureAnalyzer._calculate_complexity
calculate_complexity(body) ==
    LET if_count    == CountWordParen(body, "if")
        for_count   == CountWordParen(body, "for")
        while_count == CountWordParen(body, "while")
        case_count  == CountWordSpace(body, "case")
    IN  [if_count     |-> if_count,
         else_count   |-> CountWord(body, "else"),
         for_count    |-> for_count,
         while_count  |-> while_count,
         switch_count |-> CountWordParen(body, "switch"),
         case_count   |-> case_count,
         return_count |-> CountWord(body, "return"),
         cyclomatic   |-> 1 + if_count + for_count + while_count + case_count]

\* The while loop of _find_function_end; i is the 1-based position, and the
\* result is the 1-based position after the closing brace, or -1.
RECURSIVE find_function_end_loop(_, _, _)
find_function_end_loop(t, i, depth) ==
    IF i <= Len(t) /\ depth > 0
    THEN find_function_end_loop(t, i + 1,
             IF t[i] = "{" THEN depth + 1
             ELSE IF t[i] = "}" THEN depth - 1 ELSE depth)
    ELSE IF depth = 0 THEN i ELSE -1

\* A brace matcher that does not count opening braces: it stops after the
\* first closing brace.
find_function_end_first_close(t, start) ==
    IF Find(t, start, "}") = 0 THEN -1 ELSE Find(t, start, "}") + 1

\* ProcedureAnalyzer._find_function_end
find_function_end(t, start) == find_function_end_loop(t, start, 1)

\* ProcedureAnalyzer._analyze_file, over the matches of func_pattern (the
\* expression of PATTERNS['func_def']).
RECURSIVE analyze_file(_, _, _, _)
analyze_file(procs, t, matches, file_path) ==
    IF matches = <<>> THEN procs
    ELSE LET m         == Head(matches)
             start     == m.end
             end       == find_function_end(t, start)
             func_body == SubSeq(t, start, end - 1)
         IN  IF m.name \in C_KEYWORDS \/ end = -1
             THEN analyze_file(procs, t, Tail(matches), file_path)
             ELSE analyze_file(
                    Append(procs,
                           [name        |-> m.name,
                            file        |-> file_path,
                            return_type |-> m.return_type,
                            params      |-> m.params,
                            line_count  |-> CountElem(func_body, "\n") + 1]
                           @@ calculate_complexity(func_body)),
                    t, Tail(matches), file_path)

\* main, step 5: a ProcedureAnalyzer is constructed and its scan begins.
ProceduresBegin ==
    /\ pc = "reviewed"
    /\ pc' = "procedures"
    /\ pass_pos' = 1
    /\ procedures' = <<>>
    /\ UNCHANGED <<source, functions, call_edges, file_functions, structs, enums,
                   struct_usage, enum_usage, modules,
                   scanVars, cycleVars, normVars, layerVars>>

\* One iteration of the loop of ProcedureAnalyzer.scan: a source file that
\* can be read is analyzed.
ProcedurePass ==
    /\ pc = "procedures"
    /\ pass_pos <= Len(files)
    /\ LET rel_path == files[pass_pos]
       IN  procedures' =
               IF is_header(rel_path) \/ rel_path \in unreadable THEN procedures
               ELSE analyze_file(procedures, source[rel_path],
                                 FuncDefIter(source[rel_path], 1), rel_path)
    /\ pass_pos' = pass_pos + 1
    /\ UNCHANGED <<pc, source, functions, call_edges, file_functions, structs, enums,
                   struct_usage, enum_usage, modules,
                   scanVars, cycleVars, normVars, layerVars>>

\* ---- ModuleAnalyzer ----

\* info['directory'] of _find_files, and os.path.dirname(f) or '.'
directory(rel_path) == IF dirname(rel_path) = <<>> THEN <<".">> ELSE dirname(rel_path)

\* info['line_count'] as _parse_includes leaves it: the file is its #include
\* lines followed by the text of source; 0 for a file that cannot be read.
line_count(f) ==
    IF f \in unreadable THEN 0
    ELSE Len(content[f]) + CountElem(source[f], "\n") + 1

\* The first loop of ModuleAnalyzer.analyze: the files grouped by directory.
RECURSIVE group_files(_, _)
group_files(mods, fileSeq) ==
    IF fileSeq = <<>> THEN mods
    ELSE LET rel_path == Head(fileSeq)
             dir_name == directory(rel_path)
             known    == IF dir_name \in DOMAIN mods THEN mods
                         ELSE (dir_name :> [name |-> dir_name, files |-> <<>>,
                                            headers |-> 0, sources |-> 0, lines |-> 0,
                                            dependencies |-> {}, dependents |-> {}])
                              @@ mods
             mod      == known[dir_name]
         IN  group_files(
                [known EXCEPT ![dir_name] =
                    [mod EXCEPT !.files = Append(@, rel_path),
                                !.lines = @ + line_count(rel_path),
                                !.headers = IF is_header(rel_path) THEN @ + 1 ELSE @,
                                !.sources = IF is_header(rel_path) THEN @ ELSE @ + 1]],
                Tail(fileSeq))

\* module_edge without the comparison of line 860: an edge inside one
\* directory is recorded as well.
module_edge_unfiltered(mods, src_file, dep_file) ==
    LET src_dir == directory(src_file)
        dep_dir == directory(dep_file)
        m1 == IF src_dir \in DOMAIN mods
              THEN [mods EXCEPT ![src_dir].dependencies = @ \cup {dep_dir}] ELSE mods
    IN  IF dep_dir \in DOMAIN m1
        THEN [m1 EXCEPT ![dep_dir].dependents = @ \cup {src_dir}] ELSE m1

\* Lines 857-864: the body of the inner loop for one file-level edge.
module_edge(mods, src_file, dep_file) ==
    LET src_dir == directory(src_file)
        dep_dir == directory(dep_file)
        m1 == IF src_dir \in DOMAIN mods
              THEN [mods EXCEPT ![src_dir].dependencies = @ \cup {dep_dir}] ELSE mods
    IN  IF src_dir = dep_dir THEN mods
        ELSE IF dep_dir \in DOMAIN m1
        THEN [m1 EXCEPT ![dep_dir].dependents = @ \cup {src_dir}] ELSE m1

\* The inner loop over the dependencies of one file.
RECURSIVE module_deps_of(_, _, _)
module_deps_of(mods, src_file, deps) ==
    IF deps = {} THEN mods
    ELSE LET dep_file == CHOOSE d \in deps : TRUE
         IN  module_deps_of(module_edge(mods, src_file, dep_file), src_file,
                            deps \ {dep_file})

\* The loop over scanner.dependencies.items().
RECURSIVE module_deps(_, _, _)
module_deps(mods, deps, keys) ==
    IF keys = {} THEN mods
    ELSE LET src_file == CHOOSE f \in keys : TRUE
         IN  module_deps(module_deps_of(mods, src_file, deps[src_file]), deps,
                         keys \ {src_file})

\* ModuleAnalyzer.analyze, the layer of a module apart: it is read from the
\* CleanArchAnalyzer and written to no other field.
analyze(fileSeq, deps) == module_deps(group_files(<<>>, fileSeq), deps, DOMAIN deps)

\* ProcedureAnalyzer.scan has returned; a ModuleAnalyzer is constructed and
\* its analyze runs.
ModuleAnalyze ==
    /\ pc = "procedures"
    /\ pass_pos > Len(files)
    /\ modules' = analyze(files, dependencies)
    /\ pc' = "analyzed"
    /\ UNCHANGED <<callVars, procedures, scanVars, cycleVars, normVars, layerVars>>

MaxReviewFiles == 2

m_c == <<"m", ".", "c">>

\* Files of the projects codebase_reviewer.py is explored on.
ReviewUniverse == {a_h, b_c, m_c}

\* "ret name() {"
DefLine(ret, name) == <<ret, " ", name, "(", ")", " ", "{">>
\* "name();"
CallStmt(name) == <<name, "(", ")", ";">>

\* void Foo() { Bar(); }
\* void Bar() {}
ScenarioDText ==
    DefLine("void", "Foo") \o <<" ">> \o CallStmt("Bar") \o <<" ", "}", "\n">>
        \o DefLine("void", "Bar") \o <<"}", "\n">>

\* void Foo() {
\*   Bar();
\* }
CallerText ==
    DefLine("void", "Foo") \o <<"\n", " ", " ">> \o CallStmt("Bar") \o <<"\n", "}", "\n">>

\* void Bar() {}
CalleeText == DefLine("void", "Bar") \o <<"}", "\n">>

\* the two above in one file
SpreadText == CallerText \o CalleeText

\* /*
\* void Ghost() {
\* */
\* void Bar() {}
CommentedText ==
    <<"/", "*", "\n">> \o DefLine("void", "Ghost") \o <<"\n", "*", "/", "\n">> \o CalleeText

\* struct Point { int x; int y; };
StructText ==
    <<"struct", " ", "Point", " ", "{", " ", "int", " ", "x", ";", " ",
      "int", " ", "y", ";", " ", "}", ";", "\n">>

\* const char *s = "struct Ghost { }";
StringText ==
    <<"const", " ", "char", " ", "*", "s", " ", "=", " ", "\"",
      "struct", " ", "Ghost", " ", "{", " ", "}", "\"", ";", "\n">>

\* void Bar() {}
\* else if (x) {
\*   Bar();
\* }
ElseIfText ==
    CalleeText \o <<"else", " ", "if", " ", "(", "x", ")", " ", "{", "\n", " ", " ">>
        \o CallStmt("Bar") \o <<"\n", "}", "\n">>

\* enum Color { RED };
\* typedef enum { ON } Mode;
EnumText ==
    <<"enum", " ", "Color", " ", "{", " ", "RED", " ", "}", ";", "\n",
      "typedef", " ", "enum", " ", "{", " ", "ON", " ", "}", " ", "Mode", ";", "\n">>

\* void Draw() {
\*   struct Point p;
\*   p.x = 1;
\*   Bar(p);
\*   Color c;
\* }
UsageText ==
    DefLine("void", "Draw") \o <<"\n", " ", " ", "struct", " ", "Point", " ", "p", ";",
        "\n", " ", " ", "p", ".", "x", " ", "=", " ", "1", ";",
        "\n", " ", " ", "Bar", "(", "p", ")", ";",
        "\n", " ", " ", "Color", " ", "c", ";", "\n", "}", "\n">>

\* void Foo() {
\*   if (x) {
\*     Bar();
\*   }
\*   return;
\* }
\* void Bar() {}
NestedText ==
    DefLine("void", "Foo")
        \o <<"\n", " ", " ", "if", " ", "(", "x", ")", " ", "{", "\n", " ", " ", " ", " ">>
        \o CallStmt("Bar") \o <<"\n", " ", " ", "}", "\n", " ", " ", "return", ";", "\n",
                                "}", "\n">>
        \o CalleeText

\* void Foo() {
\*   if (x) {
\*     Bar();
\* }
\* void Bar() {}
TruncatedText ==
    DefLine("void", "Foo")
        \o <<"\n", " ", " ", "if", " ", "(", "x", ")", " ", "{", "\n", " ", " ", " ", " ">>
        \o CallStmt("Bar") \o <<"\n", "}", "\n">>
        \o CalleeText

FileTexts == {ScenarioDText, CallerText, CalleeText, SpreadText, CommentedText,
              StructText, StringText, ElseIfText, EnumText, UsageText}

\* The texts the procedure analysis is explored on.
ProcedureTexts == {CalleeText, CommentedText, NestedText, TruncatedText}

\* What a file that cannot be read holds on disk: a struct definition, or two
\* function definitions and a call.
UnreadableTexts == {StructText, SpreadText}

\* A run of codebase_reviewer.py on a project whose files hold no #include.
InitReview ==
    /\ pc = "review_main"
    /\ isdir \in BOOLEAN
    /\ walk \in IF isdir THEN InjSeqs(ReviewUniverse, MaxReviewFiles) ELSE {<<>>}
    /\ unreadable \in UpTo(Range(walk), MaxUnreadable)
    /\ source \in {c \in [Range(walk) -> FileTexts] :
                       \A f \in unreadable : c[f] \in UnreadableTexts}
    /\ content = [f \in Range(walk) |-> <<>>]
    /\ include_system = FALSE
    /\ files = <<>>
    /\ raw_includes = <<>>
    /\ dependencies = EmptyMap
    /\ reverse_deps = EmptyMap
    /\ unresolved = EmptyMap
    /\ functions = <<>>
    /\ call_edges = <<>>
    /\ file_functions = <<>>
    /\ structs = <<>>
    /\ enums = <<>>
    /\ struct_usage = <<>>
    /\ enum_usage = <<>>
    /\ pass_pos = 0
    /\ IdleCycleVars
    /\ IdleNormVars
    /\ IdleLayerVars
    /\ IdleAnalysisVars

NextReview ==
    \/ ReviewMain
    \/ InterfacePass
    \/ ScanUsageBegin
    \/ ScanUsagePass
    \/ InterfaceScanned
    \/ DefinitionsPass
    \/ DefinitionsDone
    \/ CallsPass
    \/ CallsDone

SpecReview == InitReview /\ [][NextReview]_vars

\* A run of either tool.
\* A run of codebase_reviewer.py on a project whose files hold #include
\* directives and lie in several directories; below its directives every
\* file holds one function definition.
InitModules ==
    /\ pc = "review_main"
    /\ isdir \in BOOLEAN
    /\ walk \in IF isdir THEN InjSeqs(FileUniverse, MaxFiles) ELSE {<<>>}
    /\ unreadable \in UpTo(Range(walk), MaxUnreadable)
    /\ content \in {c \in [Range(walk) -> FileContents] :
                        \A f \in unreadable : c[f] \in UnreadableContents}
    /\ source = [f \in Range(walk) |-> CalleeText]
    /\ include_system = FALSE
    /\ files = <<>>
    /\ raw_includes = <<>>
    /\ dependencies = EmptyMap
    /\ reverse_deps = EmptyMap
    /\ unresolved = EmptyMap
    /\ functions = <<>>
    /\ call_edges = <<>>
    /\ file_functions = <<>>
    /\ structs = <<>>
    /\ enums = <<>>
    /\ struct_usage = <<>>
    /\ enum_usage = <<>>
    /\ pass_pos = 0
    /\ IdleCycleVars
    /\ IdleNormVars
    /\ IdleLayerVars
    /\ IdleAnalysisVars

\* A run of codebase_reviewer.py on a project without #include directives
\* whose files hold function definitions with nested, closed and unclosed
\* bodies.
InitProcedures ==
    /\ pc = "review_main"
    /\ isdir \in BOOLEAN
    /\ walk \in IF isdir THEN InjSeqs(ReviewUniverse, MaxReviewFiles) ELSE {<<>>}
    /\ unreadable \in UpTo(Range(walk), MaxUnreadable)
    /\ source \in {c \in [Range(walk) -> ProcedureTexts] :
                       \A f \in unreadable : c[f] = NestedText}
    /\ content = [f \in Range(walk) |-> <<>>]
    /\ include_system = FALSE
    /\ files = <<>>
    /\ raw_includes = <<>>
    /\ dependencies = EmptyMap
    /\ reverse_deps = EmptyMap
    /\ unresolved = EmptyMap
    /\ functions = <<>>
    /\ call_edges = <<>>
    /\ file_functions = <<>>
    /\ structs = <<>>
    /\ enums = <<>>
    /\ struct_usage = <<>>
    /\ enum_usage = <<>>
    /\ pass_pos = 0
    /\ IdleCycleVars
    /\ IdleNormVars
    /\ IdleLayerVars
    /\ IdleAnalysisVars

\* main of codebase_reviewer.py from step 1 to the module analysis.
NextAnalysis == NextReview \/ ProceduresBegin \/ ProcedurePass \/ ModuleAnalyze

SpecProcedures == InitProcedures /\ [][NextAnalysis]_vars

SpecModules == InitModules /\ [][NextAnalysis]_vars

InitRuns == Init \/ InitReview
NextRuns == Next \/ NextReview
SpecRuns == InitRuns /\ [][NextRuns]_vars

-----------------------------------------------------------------------------
(* analyze_deps.py: layer dependencies and the stability metrics.          *)

MaxDeps == 3

\* Include names of analyze_deps.py.
OP_INTERFACE     == <<"o", "p", "_", "i", "n", "t", "e", "r", "f", "a", "c", "e", ".", "h">>
OP_REGISTRY      == <<"o", "p", "_", "r", "e", "g", "i", "s", "t", "r", "y", ".", "h">>
ALGORITHM_RUNNER == <<"a", "l", "g", "o", "r", "i", "t", "h", "m", "_", "r", "u", "n", "n", "e", "r", ".", "h">>
UTILS_SLASH      == <<"u", "t", "i", "l", "s", "/">>
PLATFORM_SLASH   == <<"p", "l", "a", "t", "f", "o", "r", "m", "/">>
CORE_SLASH       == <<"c", "o", "r", "e", "/">>
UTILS_C_H        == UTILS_SLASH \o c_h
PLATFORM_C_H     == PLATFORM_SLASH \o c_h
CORE_C_H         == CORE_SLASH \o c_h

\* categorize(file_path), on the parts of the path relative to the root
categorize(parts) ==
    IF parts[1] = "include"
    THEN IF Len(parts) > 1 /\ parts[2] = "utils" THEN "include/utils" ELSE "include"
    ELSE IF parts[1] = "src" /\ parts[2] = "core" THEN "core"
    ELSE IF parts[1] = "src" /\ parts[2] = "platform" THEN "platform"
    ELSE IF parts[1] = "src" /\ parts[2] = "utils" THEN "utils"
    ELSE IF parts[1] = "src" /\ parts[2] = "main.c" THEN "main"
    ELSE IF parts[1] = "examples" THEN "examples"
    ELSE "unknown"

\* Files matched by the globs of lines 18-20.
LayerFiles ==
    {<<"include", "a.h">>, <<"include", "utils", "a.h">>,
     <<"src", "core", "a.c">>, <<"src", "platform", "a.c">>,
     <<"src", "utils", "a.c">>, <<"src", "main.c">>, <<"src", "a.c">>,
     <<"examples", "a.c">>}

\* Include names parse_includes returns (none has a system prefix).
LayerIncludes ==
    {OP_INTERFACE, UTILS_C_H, PLATFORM_C_H, CORE_C_H, c_h, b_c}

\* Lines 75-88: the target layer of an include, as <<tgt_layer>>, or <<>>
\* when the loop continues.
target_layer(inc, src_layer) ==
    IF StartsWith(inc, OP_INTERFACE) \/ StartsWith(inc, OP_REGISTRY)
        \/ StartsWith(inc, ALGORITHM_RUNNER)
    THEN <<"include">>
    ELSE IF StartsWith(inc, UTILS_SLASH) THEN <<"include/utils">>
    ELSE IF StartsWith(inc, PLATFORM_SLASH) THEN <<"platform">>
    ELSE IF StartsWith(inc, CORE_SLASH) THEN <<"core">>
    ELSE IF EndsWith(inc, <<".", "h">>) /\ src_layer = "utils" THEN <<"utils">>
    ELSE IF EndsWith(inc, <<".", "h">>) /\ src_layer = "platform" THEN <<"platform">>
    ELSE <<>>

\* layer_deps[src_layer].add(tgt_layer) on a defaultdict(set)
AddDep(deps, src_layer, tgt_layer) ==
    IF src_layer \in DOMAIN deps
    THEN [deps EXCEPT ![src_layer] = @ \cup {tgt_layer}]
    ELSE (src_layer :> {tgt_layer}) @@ deps

\* the number of edges of a layer graph
RECURSIVE EdgeCount(_, _)
EdgeCount(deps, S) ==
    IF S = {} THEN 0
    ELSE LET x == CHOOSE y \in S : TRUE
         IN  Cardinality(deps[x]) + EdgeCount(deps, S \ {x})

\* line 98
layers == <<"examples", "main", "include", "include/utils", "core", "platform", "utils">>

\* d.get(key, 0)
Get(d, key) == IF key \in DOMAIN d THEN d[key] ELSE 0

\* Line 197 without its guard: the quotient whatever the total.
InstabilityUnguarded(fi, fo) == [num |-> fo, den |-> fi + fo]

\* Line 197: fo / total if total > 0 else 0.0, as the ratio num/den.
Instability(fi, fo) ==
    IF fi + fo > 0 THEN [num |-> fo, den |-> fi + fo] ELSE [num |-> 0, den |-> 1]

\* One iteration of the loop of line 73, for an include of some file.
BuildLayerDeps ==
    /\ pc = "layers"
    /\ EdgeCount(layer_deps, DOMAIN layer_deps) < MaxDeps
    /\ \E file_path \in LayerFiles, inc \in LayerIncludes :
          LET src_layer == categorize(file_path)
              tgt_layer == target_layer(inc, src_layer)
          IN  layer_deps' = IF tgt_layer # <<>> /\ src_layer # tgt_layer[1]
                            THEN AddDep(layer_deps, src_layer, tgt_layer[1])
                            ELSE layer_deps
    /\ UNCHANGED <<pc, fan_in, fan_out, instability,
                   scanVars, cycleVars, normVars, callVars, analysisVars>>

\* Lines 185-191.
CountFans ==
    /\ pc = "layers"
    /\ pc' = "fans"
    /\ fan_out' = [src \in DOMAIN layer_deps |-> Cardinality(layer_deps[src])]
    /\ fan_in' = [tgt \in UNION {layer_deps[src] : src \in DOMAIN layer_deps} |->
                    Cardinality({src \in DOMAIN layer_deps : tgt \in layer_deps[src]})]
    /\ UNCHANGED <<layer_deps, instability, scanVars, cycleVars, normVars, callVars, analysisVars>>

\* Lines 193-202.
ReportStability ==
    /\ pc = "fans"
    /\ pc' = "reported"
    /\ instability' = [layer \in Range(layers) |->
                          Instability(Get(fan_in, layer), Get(fan_out, layer))]
    /\ UNCHANGED <<layer_deps, fan_in, fan_out, scanVars, cycleVars, normVars, callVars, analysisVars>>

InitLayers ==
    /\ pc = "layers"
    /\ IdleLayerVars
    /\ IdleAnalysisVars
    /\ isdir = TRUE
    /\ unreadable = {}
    /\ walk = <<>>
    /\ content = <<>>
    /\ include_system = FALSE
    /\ files = <<>>
    /\ raw_includes = <<>>
    /\ dependencies = EmptyMap
    /\ reverse_deps = EmptyMap
    /\ unresolved = EmptyMap
    /\ IdleCycleVars
    /\ IdleNormVars
    /\ IdleCallVars

NextLayers == BuildLayerDeps \/ CountFans \/ ReportStability

SpecLayers == InitLayers /\ [][NextLayers]_vars

-----------------------------------------------------------------------------
(* Properties of DependencyScanner.                                        *)

Resolved == pc \in {"scanned", "cycles", "done"}

\* A closed walk of the include graph.
IsClosedWalk(c) ==
    /\ Len(c) >= 2
    /\ c[Len(c)] = c[1]
    /\ \A i \in 1..(Len(c) - 1) : c[i + 1] \in dependencies[c[i]]

\* C1: every cycle find_cycles returns is a closed walk of the include graph:
\* its last element is its first and each element includes the next one.
CycleValidity == \A i \in DOMAIN cycles : IsClosedWalk(cycles[i])

\* C2: every returned cycle starts at its lexicographically smallest file and
\* ends where it starts, and the returned list holds no sequence twice.
CyclesNormalized ==
    /\ \A i \in DOMAIN cycles :
          LET c == cycles[i]
          IN  /\ Len(c) >= 2
              /\ c[Len(c)] = c[1]
              /\ \A k \in DOMAIN c : c[k] = c[1] \/ LexLess(c[1], c[k])
    /\ \A i, j \in DOMAIN cycles : i # j => cycles[i] # cycles[j]

\* C2 witness: find_cycles has returned a cycle that the DFS entered at a file
\* other than its smallest one, so the rotation moved it.
CyclesNormalizedWitness ==
    /\ pc = "done"
    /\ cycles # <<>>
    /\ files[1] \in Range(cycles[1])
    /\ cycles[1][1] # files[1]

\* The files whose basename is that of an include path.
SameBasename(p) == {f \in Range(files) : basename(f) = basename(p)}

\* C3 as stated: every include directive found in a scanned file (one that
\* could be read) whose basename names exactly one scanned file yields an
\* edge to that file.
ResolutionTotality ==
    Resolved =>
        \A f \in Range(files) \ unreadable : \A i \in DOMAIN content[f] :
            \A t \in Range(files) :
                SameBasename(content[f][i].path) = {t} => t \in dependencies[f]

\* C3 amended: every include that _parse_includes records (raw_includes) whose
\* basename names exactly one scanned file yields an edge to that file.
RecordedResolutionTotality ==
    Resolved =>
        \A f \in Range(files) : \A i \in DOMAIN raw_includes[f] :
            \A t \in Range(files) :
                SameBasename(raw_includes[f][i].path) = {t}
                    => (t \in dependencies[f] /\ f \in reverse_deps[t])

\* C3 witness: b.c in the root includes "a.h", whose only file is gl/a.h, a
\* file of another directory found by basename lookup.
RecordedResolutionTotalityWitness ==
    /\ Resolved
    /\ Range(files) = {b_c, gl_a_h}
    /\ content[b_c] = <<Quote(a_h)>>
    /\ gl_a_h \in dependencies[b_c]

\* C8: two headers that include each other, alone in the scanned set, give
\* exactly one cycle, [a.h, b.h, a.h], whichever is discovered first.
ScenarioB ==
    (/\ pc = "done"
     /\ Range(files) = {a_h, b_h}
     /\ unreadable = {}
     /\ content[a_h] = <<Quote(b_h)>>
     /\ content[b_h] = <<Quote(a_h)>>)
        => cycles = << <<a_h, b_h, a_h>> >>

\* C8 witness: the scenario with b.h discovered first.
ScenarioBWitness ==
    /\ pc = "done"
    /\ files = <<b_h, a_h>>
    /\ content[a_h] = <<Quote(b_h)>>
    /\ content[b_h] = <<Quote(a_h)>>
    /\ cycles = << <<a_h, b_h, a_h>> >>

\* The files an include of f resolves to.
ResolvedTargets(f) ==
    {Resolve(files, f, raw_includes[f][i].path) : i \in DOMAIN raw_includes[f]} \ {None}

\* C9: with a.h (no includes) and b.c (#include "a.h") the graph has the one
\* edge b.c -> a.h, fan-in(a.h) = 1, fan-out(b.c) = 1 and no cycle is returned;
\* in general fan-in(f) counts the files with an edge to f and fan-out(f) the
\* distinct resolved targets of f.
ScenarioA ==
    /\ Resolved =>
          \A f \in Range(files) :
              /\ fanIn(f) = Cardinality({s \in Range(files) : f \in dependencies[s]})
              /\ fanOut(f) = Cardinality(ResolvedTargets(f))
    /\ (/\ Resolved
        /\ Range(files) = {a_h, b_c}
        /\ unreadable = {}
        /\ content[a_h] = <<>>
        /\ content[b_c] = <<Quote(a_h)>>)
          => /\ dependencies = [EmptyMap EXCEPT ![b_c] = {a_h}]
             /\ fanIn(a_h) = 1
             /\ fanOut(b_c) = 1
             /\ total_dependencies = 1
             /\ pc = "done" => cycles = <<>>

\* C9 witness: the scenario, scanned and searched for cycles.
ScenarioAWitness ==
    /\ pc = "done"
    /\ Range(files) = {a_h, b_c}
    /\ content[a_h] = <<>>
    /\ content[b_c] = <<Quote(a_h)>>
    /\ fanIn(a_h) = 1

\* An include path that matches no scanned file in any of the three ways.
MatchesNoFile(f, p) ==
    /\ normpath(join(dirname(f), p)) \notin Range(files)
    /\ p \notin Range(files)
    /\ SameBasename(p) = {}

\* C10: a quote-form include that matches no scanned file is recorded in
\* unresolved[file]; a file whose only include is such a one has an unresolved
\* count of 1 and neither a dependency nor a reverse edge.
ScenarioE ==
    Resolved =>
        \A f \in Range(files) \ unreadable : \A i \in DOMAIN content[f] :
            LET d == content[f][i]
            IN  (d.bracket = "\"" /\ MatchesNoFile(f, d.path)) =>
                    /\ d.path \in unresolved[f]
                    /\ Len(content[f]) = 1 =>
                          /\ Cardinality(unresolved[f]) = 1
                          /\ dependencies[f] = {}
                          /\ \A t \in Paths : f \notin reverse_deps[t]
                          /\ unresolved_includes >= 1

\* C10 witness: the run has completed with "missing.h" unresolved.
ScenarioEWitness ==
    /\ pc = "done"
    /\ \E f \in Range(files) :
          /\ content[f] = <<Quote(missing_h)>>
          /\ unresolved[f] = {missing_h}
          /\ unresolved_includes = 1

\* The candidate of step 1: the include path joined to the including file's
\* directory and normalized.
RelativeCandidate(f, p) == normpath(join(dirname(f), p))

\* C11: resolution takes the first of (1) the path normalized relative to the
\* including file's directory, (2) the path taken from the project root,
\* (3) a file with the include's basename; a file with one include has the
\* higher-priority candidate as its only target.
ResolutionPriority ==
    Resolved =>
        \A f \in Range(files) : \A i \in DOMAIN raw_includes[f] :
            LET p  == raw_includes[f][i].path
                c1 == RelativeCandidate(f, p)
                only == Len(raw_includes[f]) = 1
            IN  /\ c1 \in Range(files) =>
                      (c1 \in dependencies[f] /\ (only => dependencies[f] = {c1}))
                /\ (c1 \notin Range(files) /\ p \in Range(files)) =>
                      (p \in dependencies[f] /\ (only => dependencies[f] = {p}))
                /\ (c1 \notin Range(files) /\ p \notin Range(files) /\ only) =>
                      dependencies[f] \subseteq SameBasename(p)

\* C11 witness: gl/a.h includes "a.h" while a.h also exists in the root; the
\* file next to the including one (itself) is taken, not the one in the root.
ResolutionPriorityWitness ==
    /\ Resolved
    /\ Range(files) = {a_h, gl_a_h}
    /\ content[gl_a_h] = <<Quote(a_h)>>
    /\ dependencies[gl_a_h] = {gl_a_h}
    /\ a_h \notin dependencies[gl_a_h]

\* The element of a non-empty set of scanned files discovered first.
FirstDiscovered(S) == CHOOSE c \in S : \A d \in S : Index(files, c) <= Index(files, d)

\* C12: when steps 1 and 2 fail and several scanned files share the include's
\* basename, the target is the first of them in discovery order whose path
\* ends with the include path, or the first of them if none does.
BasenameLookupChoice ==
    Resolved =>
        \A f \in Range(files) : \A i \in DOMAIN raw_includes[f] :
            LET p == raw_includes[f][i].path
                cands == SameBasename(p)
                suffixed == {c \in cands : EndsWith(c, p)}
                chosen == IF suffixed # {} THEN FirstDiscovered(suffixed)
                          ELSE FirstDiscovered(cands)
            IN  (/\ RelativeCandidate(f, p) \notin Range(files)
                 /\ p \notin Range(files)
                 /\ Cardinality(cands) > 1)
                    => /\ chosen \in dependencies[f]
                       /\ Len(raw_includes[f]) = 1 => dependencies[f] = {chosen}

\* C12 witness: a.h, discovered first, includes <gl/a.h>; both a.h and
\* s/gl/a.h have the basename a.h, and the later one, whose path ends with
\* gl/a.h, is taken.
BasenameLookupChoiceWitness ==
    /\ Resolved
    /\ files = <<a_h, s_gl_a_h>>
    /\ content[a_h] = <<Angle(gl_a_h)>>
    /\ dependencies[a_h] = {s_gl_a_h}

\* C13: every source and every target of a dependency edge is a scanned
\* file.  (dependencies[s] is a set: a target is in it at most once; a key
\* exists only once line 225 has added a target under it.)
EdgesWithinFiles ==
    Resolved =>
        \A s \in Paths :
            dependencies[s] # {} =>
                (s \in Range(files) /\ dependencies[s] \subseteq Range(files))

\* C13 witness: one file has an edge while another one's only include names
\* no scanned file and gives no edge.
EdgesWithinFilesWitness ==
    /\ Resolved
    /\ \E s, g \in Range(files) :
          /\ dependencies[s] # {}
          /\ content[g] = <<Quote(missing_h)>>
          /\ dependencies[g] = {}

\* C14: t is in dependencies[s] exactly when s is in reverse_deps[t], in
\* every state of a run, so the fan-ins and the fan-outs have the same sum.
EdgeMirror ==
    /\ \A s, t \in Paths : (t \in dependencies[s]) <=> (s \in reverse_deps[t])
    /\ SumCard(reverse_deps, Paths) = SumCard(dependencies, Paths)

\* C14 witness: resolution has recorded an edge between two different files.
EdgeMirrorWitness ==
    /\ Resolved
    /\ \E s, t \in Range(files) :
          s # t /\ t \in dependencies[s] /\ s \in reverse_deps[t]
    /\ total_dependencies >= 1

\* C15: only quote-form includes appear in unresolved, and a file whose only
\* include is an angle-form one that matches no scanned file has neither an
\* unresolved entry nor an edge, whatever include_system is.
SystemIncludesDropped ==
    Resolved =>
        \A f \in Range(files) :
            /\ \A x \in unresolved[f] :
                  \E i \in DOMAIN content[f] : content[f][i] = Quote(x)
            /\ (/\ Len(content[f]) = 1
                /\ content[f][1].bracket = "<"
                /\ MatchesNoFile(f, content[f][1].path))
                  => (unresolved[f] = {} /\ dependencies[f] = {})

\* C15 witness: <missing.h>, which has no system prefix and so reaches the
\* resolver in the default mode, has been resolved to nothing and dropped.
SystemIncludesDroppedWitness ==
    /\ Resolved
    /\ ~include_system
    /\ \E f \in Range(files) :
          /\ content[f] = <<Angle(missing_h)>>
          /\ raw_includes[f] = <<[path |-> missing_h, is_system |-> TRUE]>>
          /\ unresolved[f] = {}
          /\ dependencies[f] = {}

\* C27: find_cycles terminates on every include graph, cyclic or not, and
\* the number of calls of dfs never exceeds the number of scanned files:
\* each call marks one more file as visited.
FindCyclesTerminates ==
    /\ [](/\ dfs_calls <= Len(files)
          /\ dfs_calls = Cardinality(visited)
          /\ visited \subseteq Range(files))
    /\ <>(pc = "done")

\* C27 witness: find_cycles has returned on a graph of three files with a
\* cycle, after one call of dfs per file.
FindCyclesTerminatesWitness ==
    /\ pc = "done"
    /\ Len(files) = 3
    /\ cycles # <<>>
    /\ dfs_calls = 3

\* The files reached from the files of S by one or more include edges.
RECURSIVE ReachedFrom(_, _)
ReachedFrom(S, seen) ==
    LET next == UNION {dependencies[f] : f \in S} \ seen
    IN  IF next = {} THEN seen ELSE ReachedFrom(next, seen \cup next)

\* The include graph has a directed cycle: some file reaches itself.
HasCycle == \E f \in Range(files) : f \in ReachedFrom({f}, {})

\* C28: find_cycles returns the empty list exactly when the include graph
\* has no directed cycle, a file that includes itself counting as one.
EmptyIffAcyclic ==
    pc = "done" => ((cycles = <<>>) <=> ~HasCycle)

\* C28 witness: find_cycles has returned a non-empty list for a graph in
\* which a file includes itself.
EmptyIffAcyclicWitness ==
    /\ pc = "done"
    /\ \E f \in Range(files) : f \in dependencies[f]
    /\ cycles # <<>>

\* The acyclic side of C28: a returned empty list for a graph with a chain
\* of two include edges.
EmptyIffAcyclicChain ==
    /\ pc = "done"
    /\ \E f, g, h \in Range(files) :
          f # g /\ g # h /\ f # h /\ g \in dependencies[f] /\ h \in dependencies[g]
    /\ ~HasCycle
    /\ cycles = <<>>

-----------------------------------------------------------------------------
(* Properties of the normalizer.                                           *)

\* C4: the normalizer's output has a newline exactly where its input has one,
\* so a line number counted on the cleaned text is the line number in the
\* original text.
NewlinesPreserved ==
    pc = "clean" =>
        /\ Len(clean) = Len(code)
        /\ \A i \in DOMAIN code : (clean[i] = "\n") <=> (code[i] = "\n")
        /\ \A pos \in 0..Len(code) : get_line_number(clean, pos) = get_line_number(code, pos)

\* The positions of a text that lie inside a string literal, a character
\* literal or a comment as C delimits them: a backslash inside a literal
\* escapes the character after it, a line comment ends before its newline, a
\* block comment ends with its closing pair, and a construct that is never
\* closed runs to the end of the text.
RECURSIVE CInside(_, _, _)
CInside(c, i, mode) ==
    IF i > Len(c) THEN {}
    ELSE IF mode = "code"
    THEN IF c[i] = "\"" THEN {i} \cup CInside(c, i + 1, "str")
         ELSE IF c[i] = "'" THEN {i} \cup CInside(c, i + 1, "chr")
         ELSE IF Slice2(c, i) = <<"/", "/">> THEN {i} \cup CInside(c, i + 1, "line")
         ELSE IF Slice2(c, i) = <<"/", "*">>
         THEN ({i, i + 1} \cap DOMAIN c) \cup CInside(c, i + 2, "block")
         ELSE CInside(c, i + 1, "code")
    ELSE IF mode \in {"str", "chr"}
    THEN IF c[i] = "\\" THEN ({i, i + 1} \cap DOMAIN c) \cup CInside(c, i + 2, mode)
         ELSE IF c[i] = (IF mode = "str" THEN "\"" ELSE "'")
         THEN {i} \cup CInside(c, i + 1, "code")
         ELSE {i} \cup CInside(c, i + 1, mode)
    ELSE IF mode = "line"
    THEN IF c[i] = "\n" THEN CInside(c, i + 1, "code")
         ELSE {i} \cup CInside(c, i + 1, "line")
    ELSE IF Slice2(c, i) = <<"*", "/">>
         THEN ({i, i + 1} \cap DOMAIN c) \cup CInside(c, i + 2, "code")
         ELSE {i} \cup CInside(c, i + 1, "block")

\* The part of C21 that holds: the output is as long as the input and every
\* output character is the input character at its index or a space.
SameLengthBlankOrKept ==
    pc = "clean" =>
        /\ Len(clean) = Len(code)
        /\ \A i \in DOMAIN code : clean[i] \in {code[i], " "}

\* C21: the normalizer's output has the length of its input, every output
\* character is the input character at its index or a space, and every
\* character outside the string literals, character literals and comments of
\* the input is left unchanged.
FrameEffect ==
    pc = "clean" =>
        /\ Len(clean) = Len(code)
        /\ \A i \in DOMAIN code : clean[i] \in {code[i], " "}
        /\ \A i \in DOMAIN code \ CInside(code, 1, "code") : clean[i] = code[i]

-----------------------------------------------------------------------------
(* Properties of codebase_reviewer.                                          *)

\* The names the definition pattern yields on a text.
DefinedNames(t) ==
    {FuncDefIter(t, 1)[i].name : i \in DOMAIN FuncDefIter(t, 1)} \ C_KEYWORDS

\* The names the struct pattern yields on a text.
StructNames(t) == {StructIter(t, 1)[i].name : i \in DOMAIN StructIter(t, 1)}

\* C5: text inside a literal or comment yields no entity: every key of the
\* FunctionDef map and every name in structs is one the patterns find in the
\* normalized text of the file it is attributed to.
NoLiteralLeakage ==
    /\ \A n \in DOMAIN functions :
          n \in DefinedNames(remove_comments_and_strings(source[functions[n].file]))
    /\ \A i \in DOMAIN structs :
          structs[i].name \in StructNames(remove_comments_and_strings(source[structs[i].file]))

\* C7: after the scan of a source file made of "void Foo() { Bar(); }" and
\* "void Bar() {}", (Foo, Bar) is a call edge, Foo is in Bar's called_by and
\* Bar is in Foo's calls.
ScenarioD ==
    (/\ pc = "reviewed"
     /\ \E f \in {b_c, m_c} : files = <<f>> /\ source[f] = ScenarioDText)
        => /\ <<"Foo", "Bar">> \in Range(call_edges)
           /\ "Foo" \in functions["Bar"].called_by
           /\ "Bar" \in functions["Foo"].calls

\* C16: both names of every recorded call edge are keys of the FunctionDef
\* map.
CallEdgesKnown ==
    \A i \in DOMAIN call_edges :
        /\ call_edges[i][1] \in DOMAIN functions
        /\ call_edges[i][2] \in DOMAIN functions

\* C16 witness: the scan is over; one file calls Bar, defined in another file,
\* and the edge is recorded.
CallEdgesKnownWitness ==
    /\ pc = "reviewed"
    /\ \E f, g \in Range(files) :
          f # g /\ source[f] = CallerText /\ source[g] = CalleeText
    /\ call_edges = << <<"Foo", "Bar">> >>

\* The files of the run whose read succeeds.
Readable == Range(files) \ unreadable

\* What the first pass of each scanner extracts from the files it reads.
AllDefinedNames == UNION {DefinedNames(source[f]) : f \in Readable}
AllStructNames  == UNION {StructNames(source[f]) : f \in {h \in Readable : is_header(h)}}
AllEnumNames    ==
    UNION {Names(parse_enums(<<>>, EnumIter(source[f], 1), f)) :
              f \in {h \in Readable : is_header(h)}}

\* C17: nothing of a second pass exists while a first pass runs; during the
\* second pass of either scanner the first pass has handled every file, so
\* the known names are those of the whole project and stay the same; and a
\* call to a function defined in a file scanned after the caller's file is
\* recorded.
TwoPhaseBarrier ==
    /\ pc = "interface" => (struct_usage = <<>> /\ enum_usage = <<>>)
    /\ pc = "usage" =>
          (Names(structs) = AllStructNames /\ Names(enums) = AllEnumNames)
    /\ pc = "definitions" => call_edges = <<>>
    /\ pc \in {"calls", "reviewed", "KeyError"} => DOMAIN functions = AllDefinedNames
    /\ pc = "reviewed" =>
          \A i, j \in DOMAIN files :
              (/\ i < j
               /\ ~is_header(files[i])
               /\ {files[i], files[j]} \subseteq Readable
               /\ source[files[i]] = CallerText
               /\ source[files[j]] = CalleeText)
                  => <<"Foo", "Bar">> \in Range(call_edges)

\* C17 witness: the caller's source file was scanned before the file that
\* defines the callee, and the edge is there.
TwoPhaseBarrierWitness ==
    /\ pc = "reviewed"
    /\ Len(files) = 2
    /\ ~is_header(files[1])
    /\ unreadable = {}
    /\ source[files[1]] = CallerText
    /\ source[files[2]] = CalleeText
    /\ <<"Foo", "Bar">> \in Range(call_edges)
    /\ functions["Bar"].file = files[2]

\* C18: while a second pass scans a file, no record that belongs to another
\* file changes: neither the FunctionDef of a function defined elsewhere nor
\* a usage entry of another file.
NoCrossFileMutation ==
    [][/\ (pc = "calls" /\ pass_pos <= Len(files)) =>
            \A n \in DOMAIN functions :
                functions[n].file # files[pass_pos] => functions'[n] = functions[n]
       /\ (pc = "usage" /\ pass_pos <= Len(files)) =>
            /\ \A k \in DOMAIN struct_usage : struct_usage'[k] = struct_usage[k]
            /\ \A k \in DOMAIN enum_usage : enum_usage'[k] = enum_usage[k]]_vars

\* C19: a run whose project path is no directory never leaves main: it
\* discovers no file, parses and resolves nothing and reports nothing.
RootValidated ==
    ~isdir =>
        /\ pc \in {"main", "review_main", "exit"}
        /\ files = <<>>
        /\ raw_includes = <<>>
        /\ dependencies = EmptyMap /\ reverse_deps = EmptyMap /\ unresolved = EmptyMap
        /\ cycles = <<>>
        /\ structs = <<>> /\ enums = <<>> /\ functions = <<>> /\ call_edges = <<>>

\* C19 witness: the run has ended in main on a path that is no directory.
RootValidatedWitness ==
    /\ ~isdir
    /\ pc = "exit"
    /\ files = <<>>

\* The passes of codebase_reviewer that are over.
StructsParsed   == pc \in {"usage", "definitions", "calls", "reviewed", "KeyError"}
FunctionsParsed == pc \in {"calls", "reviewed", "KeyError"}

\* C20: a file whose read fails contributes nothing (no raw include, edge,
\* unresolved entry, struct, enum, function or usage entry) and every other
\* file is processed in full.
ReadFailureSkipsFile ==
    /\ \A f \in unreadable \cap Range(files) :
          /\ raw_includes[f] = <<>>
          /\ dependencies[f] = {}
          /\ unresolved[f] = {}
          /\ \A i \in DOMAIN structs : structs[i].file # f
          /\ \A i \in DOMAIN enums : enums[i].file # f
          /\ \A n \in DOMAIN functions : functions[n].file # f
          /\ f \in DOMAIN file_functions => file_functions[f] = <<>>
          /\ \A k \in DOMAIN struct_usage \cup DOMAIN enum_usage : k[2] # f
    /\ \A f \in Readable :
          /\ (Resolved \/ StructsParsed \/ pc = "interface") =>
                raw_includes[f] = ParseFile(content[f], include_system)
          /\ Resolved =>
                \A i \in DOMAIN raw_includes[f] :
                    LET r == Resolve(files, f, raw_includes[f][i].path)
                    IN  IF r # None THEN r \in dependencies[f]
                        ELSE (raw_includes[f][i].is_system
                                \/ raw_includes[f][i].path \in unresolved[f])
          /\ (StructsParsed /\ is_header(f)) =>
                StructNames(source[f]) \subseteq Names(structs)
          /\ FunctionsParsed =>
                Range(file_functions[f]) = DefinedNames(source[f])

\* C20 witness: a scan is over in which one file, whose include would have
\* been unresolved, could not be read, and another file was read and has its
\* edge.
ReadFailureSkipsFileWitness ==
    /\ Resolved
    /\ \E f \in unreadable, g \in Readable :
          /\ content[f] = <<Quote(missing_h)>>
          /\ unresolved[f] = {}
          /\ dependencies[g] # {}

\* C22: the first pass of InterfaceScanner reads every scanned file, header
\* or source: when the usage pass runs, every struct and every enum defined
\* in a file that can be read is among the names the usage pass looks up.
DefinitionsFromEveryFile ==
    pc = "usage" =>
        \A f \in Readable :
            /\ StructNames(source[f]) \subseteq Names(structs)
            /\ Names(parse_enums(<<>>, EnumIter(source[f], 1), f)) \subseteq Names(enums)

\* The positions in scan order of the readable files that define name.
DefiningPositions(name) ==
    {i \in DOMAIN files : files[i] \in Readable /\ name \in DefinedNames(source[files[i]])}

\* C23: once the first pass of CallGraphAnalyzer.scan is over, a function
\* name has one entry in the FunctionDef map however many files define it,
\* and the entry's file is the last file in scan order that defines the name.
LastDefinitionWins ==
    pc \in {"calls", "reviewed", "KeyError"} =>
        \A n \in AllDefinedNames :
            /\ n \in DOMAIN functions
            /\ functions[n].name = n
            /\ \A i \in DefiningPositions(n) :
                  (\A j \in DefiningPositions(n) : j <= i) => functions[n].file = files[i]

\* C23 witness: two files that can be read both define Bar; the scan is over
\* and the entry of Bar names the second of them.
LastDefinitionWinsWitness ==
    /\ pc = "reviewed"
    /\ Len(files) = 2
    /\ DefiningPositions("Bar") = {1, 2}
    /\ functions["Bar"].file = files[2]

\* C24: when CallGraphAnalyzer.scan has returned, calls and called_by mirror
\* each other and call_edges holds the same pairs: for known functions f and
\* g, g is in functions[f].calls exactly when f is in functions[g].called_by,
\* and exactly when <<f, g>> is an element of call_edges.
CallsMirror ==
    pc = "reviewed" =>
        \A f, g \in DOMAIN functions :
            /\ (g \in functions[f].calls) <=> (f \in functions[g].called_by)
            /\ (<<f, g>> \in Range(call_edges)) <=> (g \in functions[f].calls)

\* C24 witness: the scan has returned with Foo calling Bar, recorded on both
\* sides and as an edge, and with nothing recorded in the other direction.
CallsMirrorWitness ==
    /\ pc = "reviewed"
    /\ {"Foo", "Bar"} \subseteq DOMAIN functions
    /\ "Bar" \in functions["Foo"].calls
    /\ "Foo" \in functions["Bar"].called_by
    /\ <<"Foo", "Bar">> \in Range(call_edges)
    /\ "Foo" \notin functions["Bar"].calls
    /\ "Bar" \notin functions["Foo"].called_by

\* The brace depth after position k of a body that begins at position start:
\* 1 for the opening brace, plus the opening and minus the closing braces of
\* start..k.
Depth(t, start, k) ==
    1 + Cardinality({p \in start..k : t[p] = "{"})
      - Cardinality({p \in start..k : t[p] = "}"})

\* The positions at which the depth is 0 with every earlier depth positive.
Closing(t, start) ==
    {k \in start..Len(t) :
        Depth(t, start, k) = 0 /\ \A j \in start..(k - 1) : Depth(t, start, j) > 0}

\* The functions of a text whose body is closed, with the lines of the body
\* up to the closing brace, in the order of their definitions.
RECURSIVE ClosedBodies(_, _)
ClosedBodies(t, matches) ==
    IF matches = <<>> THEN <<>>
    ELSE LET m == Head(matches)
             c == Closing(t, m.end)
         IN  (IF m.name \notin C_KEYWORDS /\ c # {}
              THEN <<[name |-> m.name,
                      line_count |->
                          CountElem(SubSeq(t, m.end, CHOOSE k \in c : TRUE), "\n") + 1]>>
              ELSE <<>>)
             \o ClosedBodies(t, Tail(matches))

\* The procedures recorded for a file, by name and line count.
ProceduresOf(f) ==
    LET own == SelectSeq(procedures, LAMBDA p : p.file = f)
    IN  [i \in DOMAIN own |-> [name |-> own[i].name, line_count |-> own[i].line_count]]

\* C25: the body of a function ends at the first closing brace that brings
\* the depth, 1 after the opening brace, +1 per "{" and -1 per "}", to 0; a
\* function whose depth never reaches 0 has no entry in procedures, and the
\* functions defined after it in the file have theirs: the procedures of a
\* source file are its functions with a closed body, in order.
BraceMatching ==
    pc = "analyzed" =>
        \A f \in Range(files) :
            ProceduresOf(f) =
                IF is_header(f) \/ f \in unreadable THEN <<>>
                ELSE ClosedBodies(source[f], FuncDefIter(source[f], 1))

\* C25 witness: the analysis is over; one source file holds a function with
\* a nested block, recorded with the six lines of its body, and another holds
\* a function whose body is never closed followed by a function that is:
\* only the second is recorded.
BraceMatchingWitness ==
    /\ pc = "analyzed"
    /\ \E f, g \in Readable :
          /\ ~is_header(f) /\ ~is_header(g)
          /\ source[f] = NestedText
          /\ ProceduresOf(f) = <<[name |-> "Foo", line_count |-> 6],
                                 [name |-> "Bar", line_count |-> 1]>>
          /\ source[g] = TruncatedText
          /\ ProceduresOf(g) = <<[name |-> "Bar", line_count |-> 1]>>

\* The file-level edges that lead from directory S to directory D.
FileEdges(S, D) ==
    {<<f, g>> \in Range(files) \X Range(files) :
        directory(f) = S /\ directory(g) = D /\ g \in dependencies[f]}

\* C26: when ModuleAnalyzer.analyze is over, the modules are the directories
\* of the scanned files; D is a dependency of module S exactly when S # D and
\* some file-level edge leads from a file of S to a file of D, and exactly
\* then S is a dependent of D; no module depends on itself.
ModuleProjection ==
    pc = "analyzed" =>
        /\ DOMAIN modules = {directory(f) : f \in Range(files)}
        /\ \A S \in DOMAIN modules :
              /\ S \notin modules[S].dependencies
              /\ S \notin modules[S].dependents
              /\ modules[S].dependencies \subseteq DOMAIN modules
              /\ modules[S].dependents \subseteq DOMAIN modules
              /\ \A D \in DOMAIN modules :
                    /\ (D \in modules[S].dependencies) <=>
                           (S # D /\ FileEdges(S, D) # {})
                    /\ (S \in modules[D].dependents) <=>
                           (S # D /\ FileEdges(S, D) # {})

\* C26 witness: b.c in the project root includes gl/a.h; the root module
\* depends on gl, gl has the root as its dependent, and nothing else is
\* recorded.
ModuleProjectionWitness ==
    /\ pc = "analyzed"
    /\ files = <<b_c, gl_a_h>>
    /\ dependencies[b_c] = {gl_a_h}
    /\ DOMAIN modules = {<<".">>, <<"g", "l">>}
    /\ modules[<<".">>].dependencies = {<<"g", "l">>}
    /\ modules[<<"g", "l">>].dependents = {<<".">>}
    /\ modules[<<".">>].dependents = {}
    /\ modules[<<"g", "l">>].dependencies = {}

\* C29: in the second pass of CallGraphAnalyzer.scan the name taken from the
\* most recent definition-shaped line is a key of the FunctionDef map
\* whenever a call to a known function is recorded, so the pass never stops
\* with a KeyError for the caller.
CallerAlwaysKnown == pc # "KeyError"

\* The orders in which the files of the run can be scanned.
ScanOrders == {p \in InjSeqs(Range(files), Len(files)) : Len(p) = Len(files)}

\* C30: the calls and called_by sets do not depend on the order in which the
\* files are scanned: a scan of the same files in any other order completes
\* as well and gives every function name the same calls set and the same
\* called_by set, and the same set of call edges.
ScanOrderIndependence ==
    pc = "reviewed" =>
        \A p \in ScanOrders :
            LET r == call_graph_scan(p)
            IN  /\ ~r.crashed
                /\ DOMAIN r.functions = DOMAIN functions
                /\ \A n \in DOMAIN functions :
                      /\ r.functions[n].calls = functions[n].calls
                      /\ r.functions[n].called_by = functions[n].called_by
                /\ Range(r.call_edges) = Range(call_edges)

\* C30 witness: two source files are scanned, each with a function that
\* calls Bar; Bar is called by both, and the file attribute of Bar would be
\* the same in the other order, the edges in the other order.
ScanOrderIndependenceWitness ==
    /\ pc = "reviewed"
    /\ Len(files) = 2
    /\ unreadable = {}
    /\ source[files[1]] = SpreadText
    /\ source[files[2]] = UsageText
    /\ ~is_header(files[1]) /\ ~is_header(files[2])
    /\ functions["Bar"].called_by = {"Foo", "Draw"}
    /\ call_edges = << <<"Foo", "Bar">>, <<"Draw", "Bar">> >>
    /\ call_graph_scan(<<files[2], files[1]>>).call_edges
           = << <<"Draw", "Bar">>, <<"Foo", "Bar">> >>

-----------------------------------------------------------------------------
(* Properties of the stability metrics.                                    *)

\* C6: for every layer reported, the fan counts are non-negative, the
\* instability fo / (fi + fo) has a positive denominator and lies between
\* 0 and 1, and a layer with fan-in 0 and fan-out 0 gets instability 0.
InstabilityBounds ==
    pc = "reported" =>
        \A layer \in Range(layers) :
            LET fi == Get(fan_in, layer)
                fo == Get(fan_out, layer)
                I  == instability[layer]
            IN  /\ fi >= 0 /\ fo >= 0
                /\ I.den > 0
                /\ 0 <= I.num /\ I.num <= I.den
                /\ (fi + fo > 0 => I.num = fo /\ I.den = fi + fo)
                /\ (fi = 0 /\ fo = 0 => I.num = 0)

\* A report with a layer without edges and a layer with both dependents and
\* dependencies, whose instability is strictly between 0 and 1.
InstabilityBoundsWitness ==
    /\ pc = "reported"
    /\ \E layer \in Range(layers) :
          Get(fan_in, layer) = 0 /\ Get(fan_out, layer) = 0 /\ instability[layer].num = 0
    /\ \E layer \in Range(layers) :
          /\ Get(fan_in, layer) > 0 /\ Get(fan_out, layer) > 0
          /\ 0 < instability[layer].num
          /\ instability[layer].num < instability[layer].den

=============================================================================
